---- MODULE Spec2Model ----
(***************************************************************************)
(* Model of autoslide's annotated-equation pipeline                        *)
(* (src/autoslide/equations.py) and of the slide generator that drives it  *)
(* (src/autoslide/generator.py).                                           *)
(*                                                                         *)
(* Strings are sequences of one-character strings; string positions are    *)
(* Python's 0-based indices, so character j of s is s[j+1].                *)
(* Lengths are integers counted in half points (HP units per point), so    *)
(* that the 217.5pt column width is an integer.                            *)
(***************************************************************************)
EXTENDS Integers, Sequences, FiniteSets, TLC

VARIABLES
    self_node_counter,   \* BeamerGenerator.node_counter
    slide_cache,         \* BeamerGenerator._slide_cache (None or hash -> latex)
    cache_file,          \* lines of <output_dir>/.autoslide.cache
    no_cache,            \* BeamerGenerator.no_cache
    latex_parts,         \* generate_beamer: the slides emitted so far
    pc,                  \* position in _generate_slide / format_annotated_equation
    block,               \* the block being formatted
    node_counter,        \* format_annotated_equation's local node_counter
    annotated_equation,  \* the Tagger's mutated equation string
    node_names,          \* the Tagger's map annotation index -> node name
    scratch,             \* the scratch directories that exist on disk
    temp_dir,            \* measure_annotation_bounding_boxes' temp_dir
    run_result,          \* subprocess.run's result and the log it left
    bounding_boxes,      \* parse_measurements_from_log's three maps
    node_positions,
    node_shifts,
    above_placements,    \* find_optimal_placement's two maps
    below_placements,
    warnings,            \* what was printed to stderr for this block
    tikz_code,           \* generate_tikzpicture_annotations' output
    raised,              \* the exception propagating out of the call
    checked,             \* the last direct call of check_placement_validity
    blocks,              \* _process_slide_blocks' blocks: the slide's blocks
    slide_parts          \* _generate_slide_uncached's slide_parts

genVars == <<self_node_counter, slide_cache, cache_file, no_cache, latex_parts>>
tagVars == <<node_counter, annotated_equation, node_names>>
fsVars == <<scratch, temp_dir, run_result>>
logVars == <<bounding_boxes, node_positions, node_shifts>>
placeVars == <<above_placements, below_placements>>
slideVars == <<blocks, slide_parts>>
vars == <<genVars, pc, block, tagVars, fsVars, logVars, placeVars, warnings,
          tikz_code, raised, checked, slideVars>>

\* "no exception": exceptions are [type, arg] records
NoError == [type |-> "None", arg |-> <<>>]

Error(type, arg) == [type |-> type, arg |-> arg]

Min(S) == CHOOSE x \in S : \A y \in S : x <= y
Max(S) == CHOOSE x \in S : \A y \in S : x >= y

(***************************************************************************)
(* Bounds of the model.                                                    *)
(***************************************************************************)
MaxEqLen == 3        \* longest equation string drawn as an input
MaxTargetLen == 2    \* longest annotation target drawn as an input
MaxAnn == 2          \* most annotations of one equation
MaxSlides == 2       \* most slides of one document
MaxCacheLines == 2   \* most lines the cache file grows to
CheckLevels == 2     \* most below-levels of a directly checked combination
MaxValidAnn == 3     \* most annotations of a directly checked combination

(***************************************************************************)
(* Python string primitives.                                               *)
(***************************************************************************)
StartsAt(s, sub, p) ==
    /\ p >= 0
    /\ p + Len(sub) <= Len(s)
    /\ SubSeq(s, p + 1, p + Len(sub)) = sub

\* str.find(sub, start): lowest index >= start where sub occurs, else -1
find(s, sub, start) ==
    LET hits == {p \in start..(Len(s) - Len(sub)) : StartsAt(s, sub, p)}
    IN IF hits = {} THEN -1 ELSE Min(hits)

\* str.rfind(sub): highest index where sub occurs, else -1
rfind(s, sub) ==
    LET hits == {p \in 0..(Len(s) - Len(sub)) : StartsAt(s, sub, p)}
    IN IF hits = {} THEN -1 ELSE Max(hits)

\* s[:pos]
Prefix(s, pos) == SubSeq(s, 1, pos)

\* s[pos:]
Suffix(s, pos) == SubSeq(s, pos + 1, Len(s))

DigitChar == <<"0", "1", "2", "3", "4", "5", "6", "7", "8", "9">>

\* str(n) of a non-negative integer, as format() writes it
RECURSIVE Decimal(_)
Decimal(n) ==
    IF n < 10 THEN <<DigitChar[n + 1]>>
    ELSE Decimal(n \div 10) \o <<DigitChar[(n % 10) + 1]>>

(***************************************************************************)
(* Exact-Match Tagger: create_tikzmarknode_equation_new.                   *)
(***************************************************************************)
\* "\\tikzmarknode[", the text rfind looks for
TIKZMARKNODE_OPEN ==
    <<"\\","t","i","k","z","m","a","r","k","n","o","d","e","[">>

\* len("\\tikzmarknode{"), the offset at which the brace scan starts
TIKZMARKNODE_LEN == 14

WRAP_OPTIONS ==
    <<"f","i","l","l","=","n","c","b","l","u","e","!","1","5",",",
      "i","n","n","e","r"," ","s","e","p","=","1","p","t",",",
      "o","u","t","e","r"," ","s","e","p","=","0","p","t","]">>

MATHSTRUT == <<"\\","m","a","t","h","s","t","r","u","t">>

\* f"node{node_counter}"
NodeName(counter) == <<"n","o","d","e">> \o Decimal(counter)

\* the wrapper text that replaces one occurrence of exact_string
Wrapped(node_name, exact_string) ==
    TIKZMARKNODE_OPEN \o WRAP_OPTIONS \o <<"{">> \o node_name \o <<"}">>
        \o <<"{">> \o exact_string \o MATHSTRUT \o <<"}">>

\* the for-loop over j: TRUE iff it sets inside_tikzmarknode
RECURSIVE BraceScan(_, _, _, _, _, _)
BraceScan(result, j, stop, pos, brace_count, content_start) ==
    IF j >= stop \/ j >= Len(result) THEN FALSE
    ELSE LET char == result[j + 1] IN
        IF char = "{"
        THEN BraceScan(result, j + 1, stop, pos, brace_count + 1,
                       IF brace_count + 1 = 1 THEN j + 1 ELSE content_start)
        ELSE IF char = "}"
        THEN IF brace_count - 1 = 0
             THEN content_start <= pos /\ pos < j
             ELSE BraceScan(result, j + 1, stop, pos, brace_count - 1,
                            content_start)
        ELSE BraceScan(result, j + 1, stop, pos, brace_count, content_start)

\* the check made on one candidate occurrence at pos
InsideTikzmarknode(result, exact_string, pos) ==
    LET last_node_start == rfind(Prefix(result, pos), TIKZMARKNODE_OPEN)
    IN /\ last_node_start # -1
       /\ BraceScan(result, last_node_start + TIKZMARKNODE_LEN,
                    pos + Len(exact_string), pos, 0, -1)

\* the while-loop: the position the Tagger settles on, or -1
RECURSIVE AcceptedPos(_, _, _)
AcceptedPos(result, exact_string, pos) ==
    IF pos = -1 THEN -1
    ELSE IF InsideTikzmarknode(result, exact_string, pos)
    THEN AcceptedPos(result, exact_string,
                     find(result, exact_string, pos + Len(exact_string)))
    ELSE pos

\* sorted(enumerate(specs, 1), key=len of target, reverse=True): the
\* indices by descending target length, equal lengths in index order
RECURSIVE SortedFrom(_, _)
SortedFrom(specs, left) ==
    IF left = {} THEN <<>>
    ELSE LET longest == Max({Len(specs[i]) : i \in left})
             first == Min({i \in left : Len(specs[i]) = longest})
         IN <<first>> \o SortedFrom(specs, left \ {first})

\* sorted_specs without the sort: the indices as listed
IndexOrder(specs) == [i \in DOMAIN specs |-> i]

sorted_specs(specs) == SortedFrom(specs, DOMAIN specs)

\* One pass of the for-loop over sorted_specs, from position k of order on.
\* st is [result, node_names, node_counter, error].
NoNames == [i \in {} |-> <<>>]

RECURSIVE TagLoop(_, _, _, _)
TagLoop(specs, order, k, st) ==
    IF k > Len(order) THEN st
    ELSE LET i == order[k]
             exact_string == specs[i]
             pos == AcceptedPos(st.result, exact_string,
                                find(st.result, exact_string, 0))
         IN IF pos = -1
            THEN [st EXCEPT !.error = Error("ValueError", exact_string)]
            ELSE LET counter == st.node_counter + 1
                     node_name == NodeName(counter)
                     before == Prefix(st.result, pos)
                     after == Suffix(st.result, pos + Len(exact_string))
                 IN TagLoop(specs, order, k + 1,
                        [result |-> before \o Wrapped(node_name, exact_string)
                                        \o after,
                         node_names |-> [n \in (DOMAIN st.node_names) \cup {i} |->
                                            IF n = i THEN node_name
                                            ELSE st.node_names[n]],
                         node_counter |-> counter,
                         error |-> NoError])

\* create_tikzmarknode_equation_new returning the counter it was given
create_without_advance(equation_content, annotation_specs, counter) ==
    [TagLoop(annotation_specs, sorted_specs(annotation_specs), 1,
             [result |-> equation_content, node_names |-> NoNames,
              node_counter |-> counter, error |-> NoError])
        EXCEPT !.node_counter = counter]

create_tikzmarknode_equation_new(equation_content, annotation_specs, counter) ==
    TagLoop(annotation_specs, sorted_specs(annotation_specs), 1,
            [result |-> equation_content, node_names |-> NoNames,
             node_counter |-> counter, error |-> NoError])

(***************************************************************************)
(* Extent Prober: parse_measurements_from_log.                             *)
(*                                                                         *)
(* The log is the sequence of the diagnostic lines the engine wrote; a     *)
(* line is [tag, index, a, b] for "TAG<index>: key=a pt, key=b pt".        *)
(***************************************************************************)
HP == 2    \* model units per point

DEFAULT_WIDTH_PT == 50     \* bounding_boxes[i] = (50.0, 12.0)
DEFAULT_HEIGHT_PT == 12

\* re.search: the first line of the log that matches tag and index
Matches(log_content, tag, i) ==
    {k \in 1..Len(log_content) :
        log_content[k].tag = tag /\ log_content[k].index = i}

HasMatch(log_content, tag, i) == Matches(log_content, tag, i) # {}

FirstMatch(log_content, tag, i) == log_content[Min(Matches(log_content, tag, i))]

\* baseline_y, 0.0 when the BASELINEPOS line is missing
BaselineY(log_content) ==
    IF HasMatch(log_content, "BASELINEPOS", 0)
    THEN FirstMatch(log_content, "BASELINEPOS", 0).b
    ELSE 0

\* ParseBoundingBoxes without the fallback for a missing measurement
ParseBoundingBoxesNoDefault(log_content, num_annotations) ==
    [i \in {k \in 1..num_annotations : HasMatch(log_content, "ANNOTATION", k)} |->
        <<FirstMatch(log_content, "ANNOTATION", i).a,
          FirstMatch(log_content, "ANNOTATION", i).b>>]

ParseBoundingBoxes(log_content, num_annotations) ==
    [i \in 1..num_annotations |->
        IF HasMatch(log_content, "ANNOTATION", i)
        THEN <<FirstMatch(log_content, "ANNOTATION", i).a,
               FirstMatch(log_content, "ANNOTATION", i).b>>
        ELSE <<DEFAULT_WIDTH_PT * HP, DEFAULT_HEIGHT_PT * HP>>]

ParseNodePositions(log_content, num_annotations) ==
    [i \in {k \in 1..num_annotations : HasMatch(log_content, "NODEPOS", k)} |->
        FirstMatch(log_content, "NODEPOS", i).a]

ParseNodeShifts(log_content, num_annotations) ==
    [i \in {k \in 1..num_annotations : HasMatch(log_content, "NODEPOS", k)} |->
        FirstMatch(log_content, "NODEPOS", i).b - BaselineY(log_content)]

\* the warnings parse_measurements_from_log prints
ParseWarnings(log_content, num_annotations) ==
    (IF HasMatch(log_content, "BASELINEPOS", 0) THEN {}
     ELSE {<<"Could not find baseline position", 0>>})
    \cup {<<"Could not find measurement for annotation", i>> :
            i \in {k \in 1..num_annotations :
                      ~HasMatch(log_content, "ANNOTATION", k)}}

parse_measurements_from_log(log_content, num_annotations) ==
    [bounding_boxes |-> ParseBoundingBoxes(log_content, num_annotations),
     node_positions |-> ParseNodePositions(log_content, num_annotations),
     node_shifts |-> ParseNodeShifts(log_content, num_annotations),
     warnings |-> ParseWarnings(log_content, num_annotations)]

(***************************************************************************)
(* Placement Search: check_placement_validity.                             *)
(***************************************************************************)
BASE_WIDTH_PT == 455           \* full page width
COLUMN_MARGIN_PT == 20         \* (BASE_WIDTH_PT - 20.0) / 2.0
HORIZONTAL_PADDING_PT == 10
LEFT_MARGIN_SINGLE_PT == 20    \* left_margin = 5.0 if has_columns else 20.0
LEFT_MARGIN_COLUMNS_PT == 5
CLEARANCE_PT == 5

\* PageWidth with the full width in both layout modes
PageWidthFull(has_columns) == BASE_WIDTH_PT * HP

\* PAGE_WIDTH_PT of determine_annotation_placement, in model units
PageWidth(has_columns) ==
    IF has_columns
    THEN ((BASE_WIDTH_PT - COLUMN_MARGIN_PT) * HP) \div 2
    ELSE BASE_WIDTH_PT * HP

LeftMargin(has_columns) ==
    IF has_columns THEN LEFT_MARGIN_COLUMNS_PT * HP
    ELSE LEFT_MARGIN_SINGLE_PT * HP

\* left_bound and right_bound of annotation i under the given anchor
LeftBound(i, anchor, bounding_boxes_, node_positions_, padding) ==
    IF anchor = "base west" THEN node_positions_[i]
    ELSE node_positions_[i] - (bounding_boxes_[i][1] + padding)

\* RightBound with the padding forgotten
RightBoundUnpadded(i, anchor, bounding_boxes_, node_positions_, padding) ==
    IF anchor = "base west"
    THEN node_positions_[i] + bounding_boxes_[i][1]
    ELSE node_positions_[i]

RightBound(i, anchor, bounding_boxes_, node_positions_, padding) ==
    IF anchor = "base west"
    THEN node_positions_[i] + (bounding_boxes_[i][1] + padding)
    ELSE node_positions_[i]

\* list.sort(key=left_bound) of one group: ascending, equal keys in the
\* order of insertion, which is index order
RECURSIVE SortedByLeft(_, _)
SortedByLeft(group, left) ==
    IF group = {} THEN <<>>
    ELSE LET least == Min({left[i] : i \in group})
             first == Min({i \in group : left[i] = least})
         IN <<first>> \o SortedByLeft(group \ {first}, left)

\* Overlaps with the comparison left out
OverlapsNever(curr_right, next_left) == FALSE

\* the test of two neighbours of a level, sorted by left bound
Overlaps(curr_right, next_left) == curr_right > next_left

\* WithinClearance with no clearance around the leader line
WithinClearanceZero(ann_1_left, ann_1_right, vertical_line_x) ==
    ann_1_left < vertical_line_x /\ ann_1_right > vertical_line_x

\* the test of one label span against one leader line
WithinClearance(ann_1_left, ann_1_right, vertical_line_x) ==
    /\ ann_1_left < vertical_line_x + CLEARANCE_PT * HP
    /\ ann_1_right > vertical_line_x - CLEARANCE_PT * HP

\* FirstStop without the two side-feasibility tests
FirstStopNoSide(combination, node_shifts_) ==
    LET stops == {i \in 1..Len(combination) : i \notin DOMAIN node_shifts_}
    IN IF stops = {} THEN 0 ELSE Min(stops)

\* The first loop: the first index at which the loop stops, 0 if none
FirstStop(combination, node_shifts_) ==
    LET stops == {i \in 1..Len(combination) :
                    \/ i \notin DOMAIN node_shifts_
                    \/ node_shifts_[i] < 0 /\ combination[i].position = "above"
                    \/ node_shifts_[i] > 0 /\ combination[i].position = "below"}
    IN IF stops = {} THEN 0 ELSE Min(stops)

\* [raised, value]: the exception raised (None if none) and the value returned
check_placement_validity(combination, bounding_boxes_, node_positions_, page_width_pt, horizontal_padding_pt, node_shifts_, has_columns) ==
    LET stop == FirstStop(combination, node_shifts_)
        placed == {i \in 1..Len(combination) :
                      i \in DOMAIN bounding_boxes_ /\ i \in DOMAIN node_positions_}
        left == [i \in placed |->
                    LeftBound(i, combination[i].anchor, bounding_boxes_,
                              node_positions_, horizontal_padding_pt)]
        right == [i \in placed |->
                    RightBound(i, combination[i].anchor, bounding_boxes_,
                               node_positions_, horizontal_padding_pt)]
        keys == {<<combination[i].position, combination[i].level>> : i \in placed}
        annotations(key) ==
            SortedByLeft({i \in placed : <<combination[i].position,
                                           combination[i].level>> = key}, left)
        Overlap(key) ==
            LET group == annotations(key) IN
            \E j \in 1..(Len(group) - 1) :
                Overlaps(right[group[j]], left[group[j + 1]])
        OutOfPage(key) ==
            LET group == annotations(key) IN
            \E j \in 1..Len(group) :
                \/ left[group[j]] < LeftMargin(has_columns)
                \/ right[group[j]] > page_width_pt
        Crossing(key_1, key_2) ==
            /\ key_1[1] = key_2[1]
            /\ ~(key_1[2] >= key_2[2])
            /\ \E ann_1 \in placed, ann_2 \in placed :
                /\ <<combination[ann_1].position, combination[ann_1].level>> = key_1
                /\ <<combination[ann_2].position, combination[ann_2].level>> = key_2
                /\ ann_2 \in DOMAIN node_positions_
                /\ WithinClearance(left[ann_1], right[ann_1],
                                   node_positions_[ann_2])
    IN IF stop # 0
       THEN IF stop \notin DOMAIN node_shifts_
            THEN [raised |-> Error("KeyError", <<stop>>), value |-> FALSE]
            ELSE [raised |-> NoError, value |-> FALSE]
       ELSE IF \E key \in keys : Overlap(key) \/ OutOfPage(key)
       THEN [raised |-> NoError, value |-> FALSE]
       ELSE IF \E key_1 \in keys, key_2 \in keys : Crossing(key_1, key_2)
       THEN [raised |-> NoError, value |-> FALSE]
       ELSE [raised |-> NoError, value |-> TRUE]

(***************************************************************************)
(* Placement Search: generate_placement_combinations and                   *)
(* find_optimal_placement.  Levels are whole points.                       *)
(***************************************************************************)
MAX_ATTEMPTS == 5          \* max_attempts
BASE_LEVEL_PT == 15        \* base_level_pt
LEVEL_STEP_PT == 15        \* base_level_pt + i * 15.0
LEVEL_ABOVE_PT == 20       \* levels_above = [20.0]
FALLBACK_BASE == 2         \* below_placements[i] = (2.0 + i, "base west")

RECURSIVE Pow(_, _)
Pow(b, e) == IF e = 0 THEN 1 ELSE b * Pow(b, e - 1)

\* annotation_options: every below level west then east, then every above
\* level west then east
AnnotationOptions(levels_above, levels_below) ==
    [o \in 1..(2 * Len(levels_below) + 2 * Len(levels_above)) |->
        LET side == IF o <= 2 * Len(levels_below) THEN "below" ELSE "above"
            r == IF side = "below" THEN o - 1 ELSE o - 1 - 2 * Len(levels_below)
            levels == IF side = "below" THEN levels_below ELSE levels_above
        IN [position |-> side,
            level |-> levels[(r \div 2) + 1],
            anchor |-> IF r % 2 = 0 THEN "base west" ELSE "base east"]]

NumCombinations(num_annotations, levels_above, levels_below) ==
    Pow(2 * Len(levels_below) + 2 * Len(levels_above), num_annotations)

\* generate_placement_combinations with the first annotation varying fastest
combinations_first_fastest(num_annotations, levels_above, levels_below) ==
    LET options == AnnotationOptions(levels_above, levels_below)
        K == Len(options)
    IN [k \in 1..Pow(K, num_annotations) |->
            [i \in 1..num_annotations |->
                options[(((k - 1) \div Pow(K, i - 1)) % K) + 1]]]

\* list(product(*options_per_annotation)): combination k (from 1), the
\* last annotation varying fastest
generate_placement_combinations(num_annotations, levels_above, levels_below) ==
    LET options == AnnotationOptions(levels_above, levels_below)
        K == Len(options)
    IN [k \in 1..Pow(K, num_annotations) |->
            [i \in 1..num_annotations |->
                options[(((k - 1) \div Pow(K, num_annotations - i)) % K) + 1]]]

\* LevelsBelow with every round offering all the levels of the last round
LevelsBelowAll(num_levels) ==
    [i \in 1..MAX_ATTEMPTS |-> BASE_LEVEL_PT + (i - 1) * LEVEL_STEP_PT]

LevelsBelow(num_levels) ==
    [i \in 1..num_levels |-> BASE_LEVEL_PT + (i - 1) * LEVEL_STEP_PT]

LevelsAbove == <<LEVEL_ABOVE_PT>>

\* PlacementsOf with the side of the combination ignored
PlacementsOfAnySide(combination, node_names_, side) ==
    [i \in {k \in 1..Len(combination) : k \in DOMAIN node_names_} |->
        <<combination[i].level, combination[i].anchor>>]

\* the maps built from an accepted combination
PlacementsOf(combination, node_names_, side) ==
    [i \in {k \in 1..Len(combination) :
               k \in DOMAIN node_names_ /\ combination[k].position = side} |->
        <<combination[i].level, combination[i].anchor>>]

\* FallbackBelow with every label on the first below-level of the search
FallbackBelowAtBase(num_annotations, node_names_) ==
    [i \in {k \in 1..num_annotations : k \in DOMAIN node_names_} |->
        <<BASE_LEVEL_PT, "base west">>]

\* FallbackBelow with every label on one level
FallbackBelowFlat(num_annotations, node_names_) ==
    [i \in {k \in 1..num_annotations : k \in DOMAIN node_names_} |->
        <<FALLBACK_BASE, "base west">>]

\* the degraded layout returned when no round validates
FallbackBelow(num_annotations, node_names_) ==
    [i \in {k \in 1..num_annotations : k \in DOMAIN node_names_} |->
        <<FALLBACK_BASE + i, "base west">>]

NoPlacements == [i \in {} |-> <<0, "base west">>]

\* the rounds from num_levels on: [above, below, num_levels, warned, raised]
RECURSIVE SearchFrom(_, _, _, _, _, _, _, _, _)
SearchFrom(num_levels, num_annotations, bounding_boxes_, node_positions_, node_names_, page_width_pt, horizontal_padding_pt, node_shifts_, has_columns) ==
    IF num_levels > MAX_ATTEMPTS
    THEN [above |-> NoPlacements,
          below |-> FallbackBelow(num_annotations, node_names_),
          num_levels |-> 0, warned |-> TRUE, raised |-> NoError]
    ELSE LET all_combinations ==
                 generate_placement_combinations(
                     num_annotations, LevelsAbove, LevelsBelow(num_levels))
             verdict(k) ==
                 check_placement_validity(
                     all_combinations[k], bounding_boxes_, node_positions_,
                     page_width_pt, horizontal_padding_pt, node_shifts_,
                     has_columns)
             decided ==
                 {k \in 1..NumCombinations(num_annotations, LevelsAbove,
                                           LevelsBelow(num_levels)) :
                     verdict(k) # [raised |-> NoError, value |-> FALSE]}
         IN IF decided = {}
            THEN SearchFrom(num_levels + 1, num_annotations, bounding_boxes_,
                            node_positions_, node_names_, page_width_pt,
                            horizontal_padding_pt, node_shifts_, has_columns)
            ELSE LET k == Min(decided) IN
                 IF verdict(k).raised # NoError
                 THEN [above |-> NoPlacements, below |-> NoPlacements,
                       num_levels |-> num_levels, warned |-> FALSE,
                       raised |-> verdict(k).raised]
                 ELSE [above |-> PlacementsOf(all_combinations[k], node_names_,
                                              "above"),
                       below |-> PlacementsOf(all_combinations[k], node_names_,
                                              "below"),
                       num_levels |-> num_levels, warned |-> FALSE,
                       raised |-> NoError]

find_optimal_placement(num_annotations, bounding_boxes_, node_positions_, node_names_, page_width_pt, horizontal_padding_pt, node_shifts_, has_columns) ==
    SearchFrom(1, num_annotations, bounding_boxes_, node_positions_,
               node_names_, page_width_pt, horizontal_padding_pt, node_shifts_,
               has_columns)

(***************************************************************************)
(* Extent Prober: measure_annotation_bounding_boxes, from the return of    *)
(* subprocess.run on.  run is [returncode, log_exists, log].               *)
(***************************************************************************)
NoMeasurements == [i \in {} |-> 0]

\* measure_annotation_bounding_boxes without the check of the exit status
measure_ignoring_returncode(run, num_annotations) ==
    [raised |-> NoError] @@
    parse_measurements_from_log(run.log, num_annotations)

measure_annotation_bounding_boxes(run, num_annotations) ==
    IF run.returncode # 0
    THEN [raised |-> Error("RuntimeError", <<run.returncode>>),
          bounding_boxes |-> NoMeasurements, node_positions |-> NoMeasurements,
          node_shifts |-> NoMeasurements, warnings |-> {}]
    ELSE IF ~run.log_exists
    THEN [raised |-> Error("FileNotFoundError", <<>>),
          bounding_boxes |-> NoMeasurements, node_positions |-> NoMeasurements,
          node_shifts |-> NoMeasurements, warnings |-> {}]
    ELSE [raised |-> NoError] @@
         parse_measurements_from_log(run.log, num_annotations)

\* RemainingScratch with the directory removed on the normal return only
RemainingScratchOnSuccess(scratch_, temp_dir_, outcome) ==
    IF outcome.raised = NoError THEN scratch_ \ {temp_dir_} ELSE scratch_

\* the finally clause: shutil.rmtree(temp_dir) on every way out
RemainingScratch(scratch_, temp_dir_, outcome) == scratch_ \ {temp_dir_}

\* tempfile.mkdtemp: a directory name not in use
mkdtemp(scratch_) == Min((1..(Cardinality(scratch_) + 1)) \ scratch_)

(***************************************************************************)
(* Layout Emitter: generate_tikzpicture_annotations and the tail of        *)
(* format_annotated_equation.                                              *)
(***************************************************************************)
BELOW_BUFFER_PT == 10      \* max_below_height + 10
PT_PER_EM == 12            \* below_space / 12.0
VSPACE_REDUCTION_EM == 2   \* below_space_em - 2

Primitive(kind, side, pos, node, height, anchor) ==
    [kind |-> kind, side |-> side, pos |-> pos, node |-> node,
     height |-> height, anchor |-> anchor]

\* AnnotationParts without the leader line
AnnotationPartsNoLeader(side, pos, node_names_, placements) ==
    IF pos \notin DOMAIN node_names_ THEN <<>>
    ELSE LET node == node_names_[pos]
             height == placements[pos][1]
             anchor == placements[pos][2]
         IN <<Primitive("highlight", side, pos, node, 0, ""),
              Primitive("rule", side, pos, node, 0, ""),
              Primitive("label", side, pos, node, height, anchor)>>

\* the drawing commands of one annotation: the highlight, the rule under
\* (or over) the marker, the leader line and the label node
AnnotationParts(side, pos, node_names_, placements) ==
    IF pos \notin DOMAIN node_names_ THEN <<>>
    ELSE LET node == node_names_[pos]
             height == placements[pos][1]
             anchor == placements[pos][2]
         IN <<Primitive("highlight", side, pos, node, 0, ""),
              Primitive("rule", side, pos, node, 0, ""),
              Primitive("leader", side, pos, node, height, ""),
              Primitive("label", side, pos, node, height, anchor)>>

\* the for-loop over one side's annotations, in index order
RECURSIVE SideParts(_, _, _, _)
SideParts(side, left, node_names_, placements) ==
    IF left = {} THEN <<>>
    ELSE AnnotationParts(side, Min(left), node_names_, placements)
            \o SideParts(side, left \ {Min(left)}, node_names_, placements)

\* max(heights.values()) if heights else 0, heights holding the
\* side's annotations that the placements map has
MaxHeight(annotations, placements) ==
    LET heights == [pos \in annotations \cap DOMAIN placements |->
                       placements[pos][1]]
    IN IF DOMAIN heights = {} THEN 0
       ELSE Max({heights[pos] : pos \in DOMAIN heights})

generate_tikzpicture_annotations(annotations_above, annotations_below, node_names_, above_placements_, below_placements_) ==
    [tikz_parts |->
        <<Primitive("begin", "", 0, <<>>, 0, "")>>
        \o SideParts("above", annotations_above, node_names_, above_placements_)
        \o SideParts("below", annotations_below, node_names_, below_placements_)
        \o <<Primitive("end", "", 0, <<>>, 0, "")>>,
     space_requirements |->
        [above |-> MaxHeight(annotations_above, above_placements_),
         below |-> IF MaxHeight(annotations_below, below_placements_) > 0
                   THEN MaxHeight(annotations_below, below_placements_)
                            + BELOW_BUFFER_PT
                   ELSE 0]]

\* f"{adjusted_below_space:.1f}": tenths of an em, from twelfths; a tie
\* (a quarter or three quarters of an em, exact in binary) goes to the even
\* tenth
Tenths(twelfths) ==
    LET q == (twelfths * 10) \div 12
        r == (twelfths * 10) % 12
    IN IF r > 6 \/ (r = 6 /\ q % 2 = 1) THEN q + 1 ELSE q

\* the LaTeX of one block: [equation, tikz_code, blank, vspace], vspace
\* in tenths of an em and -1 when no \vspace is written
Latex(equation, tikz, blank, vspace) ==
    [equation |-> equation, tikz_code |-> tikz, blank |-> blank,
     vspace |-> vspace]

\* EmitEquation with the reduced space written out as it is, unclamped
EmitEquationUnclamped(num_annotations, annotated_equation_, node_names_, above_placements_, below_placements_) ==
    LET annotations_above ==
            {i \in 1..num_annotations : i \in DOMAIN above_placements_}
        annotations_below ==
            {i \in 1..num_annotations :
                i \notin DOMAIN above_placements_ /\ i \in DOMAIN below_placements_}
        out == generate_tikzpicture_annotations(
                   annotations_above, annotations_below, node_names_,
                   above_placements_, below_placements_)
        below_space == out.space_requirements.below
    IN IF annotations_above # {} \/ annotations_below # {}
       THEN Latex(annotated_equation_, out.tikz_parts, below_space > 0,
                  IF below_space > 0
                  THEN Tenths(below_space - VSPACE_REDUCTION_EM * PT_PER_EM)
                  ELSE -1)
       ELSE Latex(annotated_equation_, <<>>, FALSE, -1)

\* format_annotated_equation from "Convert placements to old format" on
EmitEquation(num_annotations, annotated_equation_, node_names_, above_placements_, below_placements_) ==
    LET annotations_above ==
            {i \in 1..num_annotations : i \in DOMAIN above_placements_}
        annotations_below ==
            {i \in 1..num_annotations :
                i \notin DOMAIN above_placements_ /\ i \in DOMAIN below_placements_}
        out == generate_tikzpicture_annotations(
                   annotations_above, annotations_below, node_names_,
                   above_placements_, below_placements_)
        below_space == out.space_requirements.below
        \* 12 * max(0, below_space / 12.0 - 2)
        adjusted == Max({0, below_space - VSPACE_REDUCTION_EM * PT_PER_EM})
    IN IF annotations_above # {} \/ annotations_below # {}
       THEN Latex(annotated_equation_, out.tikz_parts, below_space > 0,
                  IF below_space > 0 /\ adjusted > 0 THEN Tenths(adjusted) ELSE -1)
       ELSE Latex(annotated_equation_, <<>>, FALSE, -1)

(***************************************************************************)
(* BeamerGenerator: the slide cache.  A slide is one content block:        *)
(* [type, content, annotations, has_columns], content and the annotation   *)
(* targets being strings.                                                  *)
(***************************************************************************)
Block(type, content, annotations, has_columns) ==
    [type |-> type, content |-> content, annotations |-> annotations,
     has_columns |-> has_columns]

NoBlock == Block("none", <<>>, <<>>, FALSE)

\* _hash_blocks: SHA-256 of the canonical JSON of the blocks, taken to be
\* free of collisions, so the digest stands for the canonical text
hash_blocks(slide) ==
    <<slide.type, slide.content, slide.annotations, slide.has_columns>>

NoEntries == [h \in {} |-> Latex(<<>>, <<>>, FALSE, -1)]

\* the dict read from the cache file: a later line replaces an earlier one
EntriesOf(lines) ==
    [h \in {lines[k].hash : k \in 1..Len(lines)} |->
        lines[Max({k \in 1..Len(lines) : lines[k].hash = h})].latex_source]

\* load_cache with the no_cache flag ignored
load_cache_reading(slide_cache_, no_cache_, cache_file_) ==
    IF slide_cache_.loaded THEN slide_cache_
    ELSE [loaded |-> TRUE, entries |-> EntriesOf(cache_file_)]

\* _load_cache: the dict _generate_slide looks the hash up in
load_cache(slide_cache_, no_cache_, cache_file_) ==
    IF slide_cache_.loaded THEN slide_cache_
    ELSE IF no_cache_ THEN [loaded |-> TRUE, entries |-> NoEntries]
    ELSE [loaded |-> TRUE, entries |-> EntriesOf(cache_file_)]

\* _save_to_cache: the in-memory dict after the write
SavedCache(slide_cache_, cache_hash, latex_source) ==
    [loaded |-> TRUE,
     entries |-> [h \in (DOMAIN slide_cache_.entries) \cup {cache_hash} |->
                    IF h = cache_hash THEN latex_source
                    ELSE slide_cache_.entries[h]]]

\* _save_to_cache: the cache file after the write
SavedFile(cache_file_, cache_hash, latex_source) ==
    Append(cache_file_, [hash |-> cache_hash, latex_source |-> latex_source])

\* format_text and the un-annotated equation: the block's text, no drawing
PlainLatex(slide) == Latex(slide.content, <<>>, FALSE, -1)

(***************************************************************************)
(* Inputs.                                                                 *)
(***************************************************************************)
\* the strings over alphabet of length lo..hi
Strings(alphabet, lo, hi) ==
    IF hi < lo THEN {}
    ELSE UNION {[1..n -> alphabet] : n \in lo..hi}

\* the characters of equations and targets: "e" also occurs in the
\* wrapper's own text
Alphabet == {"x", "y", "e"}

TagEquations == Strings(Alphabet, 1, MaxEqLen)
TagTargets == Strings(Alphabet, 1, MaxTargetLen)
TagAnnotations == UNION {[1..n -> TagTargets] : n \in 1..MaxAnn}
TagCounters == {0, 9}

\* the slides of the generator's runs
GenEquation == <<"x", "y">>
GenSlides ==
    {Block("text", <<"x">>, <<>>, FALSE)}
    \cup {Block("annotated_equation", GenEquation, a, c) :
            a \in {<<>>, <<(<<"x">>)>>, <<(<<"y">>), (<<"x">>)>>, <<(<<"e">>)>>},
            c \in BOOLEAN}

\* what the engine may leave in the log for one annotation index
Line(tag, index, a, b) == [tag |-> tag, index |-> index, a |-> a, b |-> b]

Optional(present, line) == IF present THEN <<line>> ELSE <<>>

RECURSIVE Concat(_)
Concat(seqs) ==
    IF Len(seqs) = 0 THEN <<>> ELSE Head(seqs) \o Concat(Tail(seqs))

\* a choice for one line: [present, a, b]
Choices(as, bs) ==
    {[present |-> FALSE, a |-> 0, b |-> 0]}
    \cup {[present |-> TRUE, a |-> a, b |-> b] : a \in as, b \in bs}

\* the log in the order of the measurement document: the label boxes, the
\* baseline, the nodes
LogOf(num_annotations, label, baseline, node) ==
    Concat([i \in 1..num_annotations |->
               Optional(label[i].present,
                        Line("ANNOTATION", i, label[i].a, label[i].b))])
    \o Optional(baseline.present, Line("BASELINEPOS", 0, baseline.a, baseline.b))
    \o Concat([i \in 1..num_annotations |->
               Optional(node[i].present,
                        Line("NODEPOS", i, node[i].a, node[i].b))])

GenLabelChoices == Choices({60 * HP}, {8 * HP})
GenBaselineChoices == Choices({0}, {0})
GenNodeChoices == Choices({100 * HP}, {0, HP})

GenLogs(num_annotations) ==
    {LogOf(num_annotations, label, baseline, node) :
        label \in [1..num_annotations -> GenLabelChoices],
        baseline \in GenBaselineChoices,
        node \in [1..num_annotations -> GenNodeChoices]}

NoRun == [returncode |-> -1, log_exists |-> FALSE, log |-> <<>>]

GenRuns(num_annotations) ==
    {[returncode |-> 1, log_exists |-> TRUE, log |-> <<>>],
     [returncode |-> 0, log_exists |-> FALSE, log |-> <<>>]}
    \cup {[returncode |-> 0, log_exists |-> TRUE, log |-> l] :
            l \in GenLogs(num_annotations)}

NotChecked ==
    [done |-> FALSE, combination |-> <<>>, raised |-> NoError, value |-> FALSE]

(***************************************************************************)
(* The state machine.                                                      *)
(*                                                                         *)
(* pc: "idle" (between slides), "tagger", "prober", "engine" (the engine   *)
(* subprocess is running), "search", "emitter", "raised" (an exception     *)
(* left generate_beamer), "checked" (a direct call of                      *)
(* check_placement_validity returned), "slide" (_generate_slide_uncached   *)
(* is about to call _process_slide_blocks).                                *)
(***************************************************************************)
NumAnnotations == Len(block.annotations)

blockVars == <<tagVars, fsVars, logVars, placeVars, warnings, tikz_code>>

FreshBlockState ==
    /\ annotated_equation = <<>>
    /\ node_names = NoNames
    /\ temp_dir = 0
    /\ run_result = NoRun
    /\ bounding_boxes = NoMeasurements
    /\ node_positions = NoMeasurements
    /\ node_shifts = NoMeasurements
    /\ above_placements = NoPlacements
    /\ below_placements = NoPlacements
    /\ warnings = {}
    /\ tikz_code = <<>>

ResetBlockState ==
    /\ annotated_equation' = <<>>
    /\ node_names' = NoNames
    /\ temp_dir' = 0
    /\ run_result' = NoRun
    /\ bounding_boxes' = NoMeasurements
    /\ node_positions' = NoMeasurements
    /\ node_shifts' = NoMeasurements
    /\ above_placements' = NoPlacements
    /\ below_placements' = NoPlacements
    /\ warnings' = {}
    /\ tikz_code' = <<>>

\* BeamerGenerator(output_dir, no_cache) in a fresh output directory
Init ==
    /\ self_node_counter = 0
    /\ slide_cache = [loaded |-> FALSE, entries |-> NoEntries]
    /\ cache_file = <<>>
    /\ no_cache \in BOOLEAN
    /\ latex_parts = <<>>
    /\ pc = "idle"
    /\ block = NoBlock
    /\ node_counter = 0
    /\ scratch = {}
    /\ raised = NoError
    /\ checked = NotChecked
    /\ blocks = <<>>
    /\ slide_parts = <<>>
    /\ FreshBlockState

\* CacheHit with the counter advanced as if the slide had been tagged
CacheHitAdvancing(slide) ==
    /\ pc = "idle"
    /\ Len(latex_parts) < MaxSlides
    /\ LET cache == load_cache(slide_cache, no_cache, cache_file) IN
        /\ hash_blocks(slide) \in DOMAIN cache.entries
        /\ slide_cache' = cache
        /\ latex_parts' = Append(latex_parts, cache.entries[hash_blocks(slide)])
    /\ self_node_counter' = self_node_counter + Len(slide.annotations)
    /\ UNCHANGED <<cache_file, no_cache, pc, block, blockVars, raised, checked,
                   slideVars>>

\* _generate_slide finds the slide in the cache
CacheHit(slide) ==
    /\ pc = "idle"
    /\ Len(latex_parts) < MaxSlides
    /\ LET cache == load_cache(slide_cache, no_cache, cache_file) IN
        /\ hash_blocks(slide) \in DOMAIN cache.entries
        /\ slide_cache' = cache
        /\ latex_parts' = Append(latex_parts, cache.entries[hash_blocks(slide)])
    /\ UNCHANGED <<self_node_counter, cache_file, no_cache, pc, block,
                   blockVars, raised, checked,
                   slideVars>>

\* _generate_slide, cache miss, a slide without annotations: generated,
\* saved and emitted at once
GeneratePlain(slide) ==
    /\ pc = "idle"
    /\ Len(latex_parts) < MaxSlides
    /\ Len(cache_file) < MaxCacheLines
    /\ slide.annotations = <<>>
    /\ LET cache == load_cache(slide_cache, no_cache, cache_file) IN
        /\ hash_blocks(slide) \notin DOMAIN cache.entries
        /\ slide_cache' = SavedCache(cache, hash_blocks(slide), PlainLatex(slide))
        /\ cache_file' = SavedFile(cache_file, hash_blocks(slide), PlainLatex(slide))
        /\ latex_parts' = Append(latex_parts, PlainLatex(slide))
    /\ UNCHANGED <<self_node_counter, no_cache, pc, block, blockVars, raised,
                   checked, slideVars>>

\* _generate_slide, cache miss, an annotated equation: _format_block calls
\* format_annotated_equation with self.node_counter
StartEquation(slide) ==
    /\ pc = "idle"
    /\ Len(latex_parts) < MaxSlides
    /\ Len(cache_file) < MaxCacheLines
    /\ slide.annotations # <<>>
    /\ LET cache == load_cache(slide_cache, no_cache, cache_file) IN
        /\ hash_blocks(slide) \notin DOMAIN cache.entries
        /\ slide_cache' = cache
    /\ block' = slide
    /\ node_counter' = self_node_counter
    /\ pc' = "tagger"
    /\ ResetBlockState
    /\ UNCHANGED <<self_node_counter, cache_file, no_cache, latex_parts,
                   scratch, raised, checked,
                   slideVars>>

\* Tagger with the counter stored in the generator also when it raises
TaggerStoringCounter ==
    /\ pc = "tagger"
    /\ LET r == create_tikzmarknode_equation_new(
                    block.content, block.annotations, node_counter) IN
        IF r.error # NoError
        THEN /\ raised' = r.error
             /\ pc' = "raised"
             /\ self_node_counter' = node_counter + 1
             /\ UNCHANGED tagVars
        ELSE /\ annotated_equation' = r.result
             /\ node_names' = r.node_names
             /\ node_counter' = r.node_counter
             /\ pc' = "prober"
             /\ UNCHANGED <<raised, self_node_counter>>
    /\ UNCHANGED <<slide_cache, cache_file, no_cache, latex_parts, block,
                   fsVars, logVars, placeVars, warnings, tikz_code, checked,
                   slideVars>>

\* create_tikzmarknode_equation_new
Tagger ==
    /\ pc = "tagger"
    /\ LET r == create_tikzmarknode_equation_new(
                    block.content, block.annotations, node_counter) IN
        IF r.error # NoError
        THEN /\ raised' = r.error
             /\ pc' = "raised"
             /\ UNCHANGED tagVars
        ELSE /\ annotated_equation' = r.result
             /\ node_names' = r.node_names
             /\ node_counter' = r.node_counter
             /\ pc' = "prober"
             /\ UNCHANGED raised
    /\ UNCHANGED <<genVars, block, fsVars, logVars, placeVars, warnings,
                   tikz_code, checked,
                   slideVars>>

\* measure_annotation_bounding_boxes up to subprocess.run: the scratch
\* directory is made, the measurement document written, the engine started
StartMeasure ==
    /\ pc = "prober"
    /\ temp_dir' = mkdtemp(scratch)
    /\ scratch' = scratch \cup {mkdtemp(scratch)}
    /\ pc' = "engine"
    /\ UNCHANGED <<genVars, block, tagVars, run_result, logVars, placeVars,
                   warnings, tikz_code, raised, checked,
                   slideVars>>

\* FinishMeasure with a failed measurement answered by a layout of all
\* labels below at 2pt instead of the exception
FinishMeasureFallback(run) ==
    /\ pc = "engine"
    /\ run_result' = run
    /\ LET outcome == measure_annotation_bounding_boxes(run, NumAnnotations) IN
        /\ scratch' = RemainingScratch(scratch, temp_dir, outcome)
        /\ IF outcome.raised # NoError
           THEN /\ below_placements' =
                        [i \in DOMAIN node_names |-> <<FALLBACK_BASE, "base west">>]
                /\ pc' = "emitter"
                /\ warnings' = warnings \cup {<<"Error measuring bounding boxes", 0>>}
                /\ UNCHANGED <<logVars, above_placements>>
           ELSE /\ bounding_boxes' = outcome.bounding_boxes
                /\ node_positions' = outcome.node_positions
                /\ node_shifts' = outcome.node_shifts
                /\ warnings' = warnings \cup outcome.warnings
                /\ pc' = "search"
                /\ UNCHANGED <<above_placements, below_placements>>
    /\ UNCHANGED <<genVars, block, tagVars, temp_dir, tikz_code, raised,
                   checked, slideVars>>

\* the engine returns: measure_annotation_bounding_boxes checks the exit
\* status, parses the log and removes the scratch directory;
\* determine_annotation_placement re-raises what it raised
FinishMeasure(run) ==
    /\ pc = "engine"
    /\ run_result' = run
    /\ LET outcome == measure_annotation_bounding_boxes(run, NumAnnotations) IN
        /\ scratch' = RemainingScratch(scratch, temp_dir, outcome)
        /\ IF outcome.raised # NoError
           THEN /\ raised' = outcome.raised
                /\ pc' = "raised"
                /\ warnings' = warnings \cup {<<"Error measuring bounding boxes", 0>>}
                /\ UNCHANGED logVars
           ELSE /\ bounding_boxes' = outcome.bounding_boxes
                /\ node_positions' = outcome.node_positions
                /\ node_shifts' = outcome.node_shifts
                /\ warnings' = warnings \cup outcome.warnings
                /\ pc' = "search"
                /\ UNCHANGED raised
    /\ UNCHANGED <<genVars, block, tagVars, temp_dir, placeVars, tikz_code,
                   checked, slideVars>>

\* find_optimal_placement, called by determine_annotation_placement
Search ==
    /\ pc = "search"
    /\ LET r == find_optimal_placement(
                    NumAnnotations, bounding_boxes, node_positions, node_names,
                    PageWidth(block.has_columns), HORIZONTAL_PADDING_PT * HP,
                    node_shifts, block.has_columns) IN
        IF r.raised # NoError
        THEN /\ raised' = r.raised
             /\ pc' = "raised"
             /\ UNCHANGED <<placeVars, warnings>>
        ELSE /\ above_placements' = r.above
             /\ below_placements' = r.below
             /\ warnings' = warnings \cup
                    (IF r.warned
                     THEN {<<"Could not find valid placement within reasonable bounds", 0>>}
                     ELSE {})
             /\ pc' = "emitter"
             /\ UNCHANGED raised
    /\ UNCHANGED <<genVars, block, tagVars, fsVars, logVars, tikz_code, checked,
                   slideVars>>

\* generate_tikzpicture_annotations and the return of
\* format_annotated_equation: _format_block stores the counter,
\* _generate_slide saves the slide to the cache and generate_beamer emits it
Emitter ==
    /\ pc = "emitter"
    /\ LET latex_source == EmitEquation(NumAnnotations, annotated_equation,
                                        node_names, above_placements,
                                        below_placements) IN
        /\ tikz_code' = latex_source.tikz_code
        /\ slide_cache' = SavedCache(slide_cache, hash_blocks(block), latex_source)
        /\ cache_file' = SavedFile(cache_file, hash_blocks(block), latex_source)
        /\ latex_parts' = Append(latex_parts, latex_source)
    /\ self_node_counter' = node_counter
    /\ pc' = "idle"
    /\ UNCHANGED <<no_cache, block, tagVars, fsVars, logVars, placeVars,
                   warnings, raised, checked,
                   slideVars>>

\* the program is run again on the same output directory: a new
\* BeamerGenerator, the cache file and the scratch area as they were left
NewRun(flag) ==
    /\ pc \in {"idle", "raised"}
    /\ latex_parts # <<>> \/ pc = "raised"
    /\ self_node_counter' = 0
    /\ slide_cache' = [loaded |-> FALSE, entries |-> NoEntries]
    /\ no_cache' = flag
    /\ latex_parts' = <<>>
    /\ pc' = "idle"
    /\ block' = NoBlock
    /\ node_counter' = 0
    /\ raised' = NoError
    /\ ResetBlockState
    /\ UNCHANGED <<cache_file, scratch, checked,
                   slideVars>>

Next ==
    \/ \E slide \in GenSlides : CacheHit(slide)
    \/ \E slide \in GenSlides : GeneratePlain(slide)
    \/ \E slide \in GenSlides : StartEquation(slide)
    \/ Tagger
    \/ StartMeasure
    \/ \E run \in GenRuns(NumAnnotations) : FinishMeasure(run)
    \/ Search
    \/ Emitter
    \/ \E flag \in BOOLEAN : NewRun(flag)

Spec == Init /\ [][Next]_vars

(***************************************************************************)
(* The Tagger alone, on every equation and annotation list within the      *)
(* bounds: format_annotated_equation has just been entered.                *)
(***************************************************************************)
InitTag ==
    /\ self_node_counter \in TagCounters
    /\ node_counter = self_node_counter
    /\ slide_cache = [loaded |-> TRUE, entries |-> NoEntries]
    /\ cache_file = <<>>
    /\ no_cache = FALSE
    /\ latex_parts = <<>>
    /\ pc = "tagger"
    /\ \E equation \in TagEquations, annotations \in TagAnnotations :
            block = Block("annotated_equation", equation, annotations, FALSE)
    /\ scratch = {}
    /\ raised = NoError
    /\ checked = NotChecked
    /\ blocks = <<>>
    /\ slide_parts = <<>>
    /\ FreshBlockState

NextTag == Tagger

SpecTag == InitTag /\ [][NextTag]_vars

(***************************************************************************)
(* The Search alone, on every set of measurements within the bounds: the   *)
(* Prober has just returned.  check_placement_validity is also applied     *)
(* directly to every combination of up to CheckLevels below-levels.        *)
(***************************************************************************)
SearchLetters == <<"x", "y", "w", "v", "q", "g", "j">>

SearchTargets(n) == [i \in 1..n |-> <<SearchLetters[i]>>]

SearchEquation(n) == [i \in 1..n |-> SearchLetters[i]]

SearchWidths == {50 * HP, 200 * HP}
SearchHeight == 8 * HP
SearchPositions == {20 * HP, 215 * HP, 217 * HP + 1}
SearchShifts == {0 - HP, 0, HP}

\* the state in which the Prober has returned the given measurements for
\* an equation of up to max_annotations annotations
Measured(max_annotations, widths, positions, shifts) ==
    /\ self_node_counter = 0
    /\ slide_cache = [loaded |-> TRUE, entries |-> NoEntries]
    /\ cache_file = <<>>
    /\ no_cache = FALSE
    /\ latex_parts = <<>>
    /\ pc = "search"
    /\ \E n \in 1..max_annotations, has_columns \in BOOLEAN :
        /\ block = Block("annotated_equation", SearchEquation(n),
                         SearchTargets(n), has_columns)
        /\ LET r == create_tikzmarknode_equation_new(
                        SearchEquation(n), SearchTargets(n), 0) IN
            /\ annotated_equation = r.result
            /\ node_names = r.node_names
            /\ node_counter = r.node_counter
        /\ bounding_boxes \in [1..n -> widths \X {SearchHeight}]
        /\ node_positions \in [1..n -> positions]
        /\ node_shifts \in [1..n -> shifts]
    /\ scratch = {}
    /\ temp_dir = 1
    /\ run_result = [returncode |-> 0, log_exists |-> TRUE, log |-> <<>>]
    /\ above_placements = NoPlacements
    /\ below_placements = NoPlacements
    /\ warnings = {}
    /\ tikz_code = <<>>
    /\ raised = NoError
    /\ checked = NotChecked
    /\ blocks = <<>>
    /\ slide_parts = <<>>

InitSearch == Measured(MaxAnn, SearchWidths, SearchPositions, SearchShifts)

\* CheckValidity with a check that sorts the caller's combination by left
\* bound and leaves it so
CheckValidityReordering(num_levels, k) ==
    /\ pc = "search"
    /\ k <= NumCombinations(NumAnnotations, LevelsAbove, LevelsBelow(num_levels))
    /\ LET combination ==
               generate_placement_combinations(
                   NumAnnotations, LevelsAbove, LevelsBelow(num_levels))[k]
           verdict ==
               check_placement_validity(
                   combination, bounding_boxes, node_positions,
                   PageWidth(block.has_columns), HORIZONTAL_PADDING_PT * HP,
                   node_shifts, block.has_columns)
           left == [i \in 1..NumAnnotations |->
                       LeftBound(i, combination[i].anchor, bounding_boxes,
                                 node_positions, HORIZONTAL_PADDING_PT * HP)]
           order == SortedByLeft(1..NumAnnotations, left)
       IN checked' = [done |-> TRUE,
                      combination |-> [i \in 1..NumAnnotations |->
                                          combination[order[i]]],
                      raised |-> verdict.raised, value |-> verdict.value]
    /\ pc' = "checked"
    /\ UNCHANGED <<genVars, block, blockVars, raised, slideVars>>

\* a direct call of check_placement_validity on combination k of the
\* combinations with num_levels below-levels
CheckValidity(num_levels, k) ==
    /\ pc = "search"
    /\ k <= NumCombinations(NumAnnotations, LevelsAbove, LevelsBelow(num_levels))
    /\ LET combination ==
               generate_placement_combinations(
                   NumAnnotations, LevelsAbove, LevelsBelow(num_levels))[k]
           verdict ==
               check_placement_validity(
                   combination, bounding_boxes, node_positions,
                   PageWidth(block.has_columns), HORIZONTAL_PADDING_PT * HP,
                   node_shifts, block.has_columns)
       IN checked' = [done |-> TRUE, combination |-> combination,
                      raised |-> verdict.raised, value |-> verdict.value]
    /\ pc' = "checked"
    /\ UNCHANGED <<genVars, block, blockVars, raised, slideVars>>

NextSearch ==
    \/ Search
    \/ \E num_levels \in 1..CheckLevels,
          k \in 1..Pow(2 * CheckLevels + 2, MaxAnn) :
            CheckValidity(num_levels, k)

SpecSearch == InitSearch /\ [][NextSearch]_vars

(***************************************************************************)
(* check_placement_validity alone, on combinations of up to MaxValidAnn    *)
(* annotations, so that a level can hold three labels.                     *)
(***************************************************************************)
\* 55pt: with the padding a label at 20pt reaches past a marker at 80pt
ValidWidths == {50 * HP, 55 * HP}
ValidPositions == {20 * HP, 80 * HP, 215 * HP}
ValidShifts == {0}

InitValid == Measured(MaxValidAnn, ValidWidths, ValidPositions, ValidShifts)

NextValid ==
    \E num_levels \in 1..CheckLevels,
       k \in 1..Pow(2 * CheckLevels + 2, MaxValidAnn) :
        CheckValidity(num_levels, k)

SpecValid == InitValid /\ [][NextValid]_vars

(***************************************************************************)
(* find_optimal_placement one call of check_placement_validity at a time:  *)
(* checked holds the last call and its place in the two loops, num_levels  *)
(* and k (k = 0: no call yet).                                             *)
(***************************************************************************)
InitRounds == Measured(MaxAnn, SearchWidths, SearchPositions, SearchShifts)

\* RoundNow with the first round left out
RoundNowFromSecond == IF checked.done THEN checked.num_levels ELSE 2

\* the place in the two loops: the round, and the calls made in it
RoundNow == IF checked.done THEN checked.num_levels ELSE 1

CallsNow == IF checked.done THEN checked.k ELSE 0

\* the round is over: the inner for-loop has used all_combinations up
RoundOver ==
    CallsNow = NumCombinations(NumAnnotations, LevelsAbove, LevelsBelow(RoundNow))

\* SearchCheckNext with the outer loop never moving on to another round
SearchCheckNextSameRound ==
    /\ pc = "search"
    /\ ~(checked.done /\ checked.value)
    /\ LET num_levels == RoundNow
           k == IF RoundOver THEN 1 ELSE CallsNow + 1
           combination ==
               generate_placement_combinations(
                   NumAnnotations, LevelsAbove, LevelsBelow(num_levels))[k]
           verdict ==
               check_placement_validity(
                   combination, bounding_boxes, node_positions,
                   PageWidth(block.has_columns), HORIZONTAL_PADDING_PT * HP,
                   node_shifts, block.has_columns)
       IN /\ checked' = [done |-> TRUE, combination |-> combination,
                         raised |-> verdict.raised, value |-> verdict.value,
                         num_levels |-> num_levels, k |-> k]
          /\ IF verdict.raised # NoError
             THEN raised' = verdict.raised /\ pc' = "raised"
             ELSE UNCHANGED <<raised, pc>>
    /\ UNCHANGED <<genVars, block, blockVars, slideVars>>

\* one pass of the inner for-loop: the next combination, of this round or
\* the first of the next, is handed to check_placement_validity
SearchCheckNext ==
    /\ pc = "search"
    /\ ~(checked.done /\ checked.value)
    /\ LET num_levels == IF RoundOver THEN RoundNow + 1 ELSE RoundNow
           k == IF RoundOver THEN 1 ELSE CallsNow + 1
       IN /\ num_levels <= MAX_ATTEMPTS
          /\ LET combination ==
                     generate_placement_combinations(
                         NumAnnotations, LevelsAbove, LevelsBelow(num_levels))[k]
                 verdict ==
                     check_placement_validity(
                         combination, bounding_boxes, node_positions,
                         PageWidth(block.has_columns),
                         HORIZONTAL_PADDING_PT * HP, node_shifts,
                         block.has_columns)
             IN /\ checked' = [done |-> TRUE, combination |-> combination,
                               raised |-> verdict.raised,
                               value |-> verdict.value,
                               num_levels |-> num_levels, k |-> k]
                /\ IF verdict.raised # NoError
                   THEN raised' = verdict.raised /\ pc' = "raised"
                   ELSE UNCHANGED <<raised, pc>>
    /\ UNCHANGED <<genVars, block, blockVars, slideVars>>

\* the check returned True: the maps are built and returned
SearchReturnValid ==
    /\ pc = "search"
    /\ checked.done /\ checked.raised = NoError /\ checked.value
    /\ above_placements' = PlacementsOf(checked.combination, node_names, "above")
    /\ below_placements' = PlacementsOf(checked.combination, node_names, "below")
    /\ pc' = "emitter"
    /\ UNCHANGED <<genVars, block, tagVars, fsVars, logVars, warnings,
                   tikz_code, raised, checked,
                   slideVars>>

\* both loops are used up: the warning and the fallback
SearchReturnFallback ==
    /\ pc = "search"
    /\ ~(checked.done /\ checked.value)
    /\ RoundNow = MAX_ATTEMPTS /\ RoundOver
    /\ above_placements' = NoPlacements
    /\ below_placements' = FallbackBelow(NumAnnotations, node_names)
    /\ warnings' = warnings \cup
           {<<"Could not find valid placement within reasonable bounds", 0>>}
    /\ pc' = "emitter"
    /\ UNCHANGED <<genVars, block, tagVars, fsVars, logVars, tikz_code,
                   raised, checked,
                   slideVars>>

NextRounds == SearchCheckNext \/ SearchReturnValid \/ SearchReturnFallback

\* SearchCheckNext can be taken: its guard
SearchCanCheck ==
    /\ pc = "search"
    /\ ~(checked.done /\ checked.value)
    /\ (IF RoundOver THEN RoundNow + 1 ELSE RoundNow) <= MAX_ATTEMPTS

\* the interpreter keeps running the loop: weak fairness of each step, that
\* of SearchCheckNext written out with its guard for ENABLED (the step
\* changes checked whenever the guard holds)
SpecRounds ==
    /\ InitRounds
    /\ [][NextRounds]_vars
    /\ WF_vars(SearchReturnValid)
    /\ WF_vars(SearchReturnFallback)
    /\ ([]<>(~SearchCanCheck) \/ []<><<SearchCheckNext>>_vars)

(***************************************************************************)
(* The Emitter alone, on every pair of maps within the bounds: the maps of  *)
(* a search are among them, and so are maps that leave an annotation out   *)
(* or hold it twice.                                                       *)
(***************************************************************************)
\* fallback levels of annotations 1, 12 and 15, the first and the last
\* below-level of the search, the above-level
EmitLevels ==
    {FALLBACK_BASE + 1, FALLBACK_BASE + 12, FALLBACK_BASE + 15, BASE_LEVEL_PT,
     BASE_LEVEL_PT + (MAX_ATTEMPTS - 1) * LEVEL_STEP_PT, LEVEL_ABOVE_PT}

\* the maps from a subset of 1..n to (level, anchor)
PartialMaps(n) ==
    UNION {[d -> EmitLevels \X {"base west", "base east"}] : d \in SUBSET (1..n)}

InitEmit ==
    /\ self_node_counter = 0
    /\ slide_cache = [loaded |-> TRUE, entries |-> NoEntries]
    /\ cache_file = <<>>
    /\ no_cache = FALSE
    /\ latex_parts = <<>>
    /\ pc = "emitter"
    /\ \E n \in 1..MaxAnn :
        /\ block = Block("annotated_equation", SearchEquation(n),
                         SearchTargets(n), FALSE)
        /\ LET r == create_tikzmarknode_equation_new(
                        SearchEquation(n), SearchTargets(n), 0) IN
            /\ annotated_equation = r.result
            /\ node_names = r.node_names
            /\ node_counter = r.node_counter
        /\ bounding_boxes = [i \in 1..n |-> <<50 * HP, SearchHeight>>]
        /\ node_positions = [i \in 1..n |-> 100 * HP]
        /\ node_shifts = [i \in 1..n |-> 0]
        /\ above_placements \in PartialMaps(n)
        /\ below_placements \in PartialMaps(n)
    /\ scratch = {}
    /\ temp_dir = 1
    /\ run_result = [returncode |-> 0, log_exists |-> TRUE, log |-> <<>>]
    /\ warnings = {}
    /\ tikz_code = <<>>
    /\ raised = NoError
    /\ checked = NotChecked
    /\ blocks = <<>>
    /\ slide_parts = <<>>

NextEmit == Emitter

SpecEmit == InitEmit /\ [][NextEmit]_vars

(***************************************************************************)
(* The pipeline on one equation, a+b=c with the annotations [[ a ]] First   *)
(* and [[ b ]] Second in single-column layout, over the measurements the   *)
(* engine can report for it: labels of 8pt, 30pt or 60pt, the markers 20pt *)
(* apart, on the baseline or half a point above it.                        *)
(***************************************************************************)
ScenarioEquation == <<"a", "+", "b", "=", "c">>

ScenarioAnnotations == <<<<"a">>, <<"b">>>>

ScenarioSlide ==
    Block("annotated_equation", ScenarioEquation, ScenarioAnnotations, FALSE)

ScenarioLabelChoices ==
    {[present |-> TRUE, a |-> w, b |-> 8 * HP] :
        w \in {8 * HP, 30 * HP, 60 * HP}}

\* the marker of annotation i at x, the next one 20pt to its right
ScenarioNodeChoices(i) ==
    {[present |-> TRUE, a |-> x + 20 * HP * (i - 1), b |-> y] :
        x \in {150 * HP, 200 * HP}, y \in {0, HP}}

ScenarioLogs ==
    {LogOf(2, label, [present |-> TRUE, a |-> 0, b |-> 0], node) :
        label \in [1..2 -> ScenarioLabelChoices],
        node \in {f \in [1..2 -> ScenarioNodeChoices(1) \cup ScenarioNodeChoices(2)] :
                    \A i \in 1..2 : f[i] \in ScenarioNodeChoices(i)}}

ScenarioRuns ==
    {[returncode |-> 1, log_exists |-> TRUE, log |-> <<>>]}
    \cup {[returncode |-> 0, log_exists |-> TRUE, log |-> l] : l \in ScenarioLogs}

InitScenario ==
    /\ self_node_counter = 0
    /\ node_counter = 0
    /\ slide_cache = [loaded |-> TRUE, entries |-> NoEntries]
    /\ cache_file = <<>>
    /\ no_cache = FALSE
    /\ latex_parts = <<>>
    /\ pc = "tagger"
    /\ block = ScenarioSlide
    /\ scratch = {}
    /\ raised = NoError
    /\ checked = NotChecked
    /\ blocks = <<>>
    /\ slide_parts = <<>>
    /\ FreshBlockState

NextScenario ==
    \/ Tagger
    \/ StartMeasure
    \/ \E run \in ScenarioRuns : FinishMeasure(run)
    \/ Search
    \/ Emitter

SpecScenario == InitScenario /\ [][NextScenario]_vars

(***************************************************************************)
(* BeamerGenerator: the columns of a slide.  _generate_slide_uncached has   *)
(* opened the frame and the minipage and calls _process_slide_blocks on    *)
(* the slide's blocks; the parser hands over every non-empty list of       *)
(* blocks, a column break or a section break at any place.                 *)
(***************************************************************************)
MaxBlocks == 4       \* most blocks of one slide

\* _split_blocks_into_sections: the blocks between the section breaks
RECURSIVE split_blocks_into_sections(_, _, _)
split_blocks_into_sections(blocks_, sections, current_section) ==
    IF blocks_ = <<>> THEN Append(sections, current_section)
    ELSE IF Head(blocks_).type = "column_section_break"
         THEN split_blocks_into_sections(
                  Tail(blocks_), Append(sections, current_section), <<>>)
         ELSE split_blocks_into_sections(
                  Tail(blocks_), sections, Append(current_section, Head(blocks_)))

section_has_columns(section_blocks) ==
    \E k \in 1..Len(section_blocks) : section_blocks[k].type = "column_break"

\* _format_block on a block other than an annotated equation: its text
format_block(block_, has_columns) == block_.content

\* _process_section_blocks: what the for-loop appends
RECURSIVE process_section_blocks(_, _)
process_section_blocks(blocks_, has_columns) ==
    IF blocks_ = <<>> THEN <<>>
    ELSE (IF Head(blocks_).type \in {"slide_title", "footline", "footnote"}
          THEN <<>>
          ELSE IF Head(blocks_).type = "column_break"
          THEN <<"\\end{column}", "\\begin{column}[t]{0.484\\textwidth}">>
          ELSE <<format_block(Head(blocks_), has_columns)>>)
         \o process_section_blocks(Tail(blocks_), has_columns)

\* the for-loop of _process_slide_blocks from section i (0-based) on
RECURSIVE SectionsFrom(_, _)
SectionsFrom(sections, i) ==
    IF i >= Len(sections) THEN <<>>
    ELSE LET section == sections[i + 1] IN
         (IF section = <<>> THEN <<>>
          ELSE (IF i > 0
                THEN <<"\\end{column}", "\\end{columns}", "\\vspace{1em}">>
                ELSE <<>>)
               \o <<"\\begin{columns}[t]">>
               \o (IF section_has_columns(section)
                   THEN <<"\\begin{column}[t]{0.484\\textwidth}">>
                   ELSE <<"\\begin{column}[t]{\\textwidth}">>)
               \o process_section_blocks(section, section_has_columns(section)))
         \o SectionsFrom(sections, i + 1)

\* _process_slide_blocks: what it appends to slide_parts
process_slide_blocks(blocks_) ==
    SectionsFrom(split_blocks_into_sections(blocks_, <<>>, <<>>), 0)
        \o <<"\\end{column}", "\\end{columns}">>

ColumnBlocks ==
    {Block("slide_title", "T", <<>>, FALSE),
     Block("text", "x", <<>>, FALSE),
     Block("column_break", <<>>, <<>>, FALSE),
     Block("column_section_break", <<>>, <<>>, FALSE)}

InitColumns ==
    /\ self_node_counter = 0
    /\ slide_cache = [loaded |-> TRUE, entries |-> NoEntries]
    /\ cache_file = <<>>
    /\ no_cache = FALSE
    /\ latex_parts = <<>>
    /\ pc = "slide"
    /\ block = NoBlock
    /\ node_counter = 0
    /\ scratch = {}
    /\ raised = NoError
    /\ checked = NotChecked
    /\ FreshBlockState
    /\ blocks \in UNION {[1..n -> ColumnBlocks] : n \in 1..MaxBlocks}
    /\ slide_parts = <<"\\begin{frame}[t]", "\\begin{minipage}">>

\* the call of _process_slide_blocks in _generate_slide_uncached
ProcessSlideBlocks ==
    /\ pc = "slide"
    /\ slide_parts' = slide_parts \o process_slide_blocks(blocks)
    /\ pc' = "idle"
    /\ UNCHANGED <<genVars, block, blockVars, raised, checked, blocks>>

NextColumns == ProcessSlideBlocks

SpecColumns == InitColumns /\ [][NextColumns]_vars

(***************************************************************************)
(* Properties.                                                             *)
(***************************************************************************)
\* the number of unclosed braces before Python index q of s
BraceDepth(s, q) ==
    Cardinality({j \in 1..q : s[j] = "{"}) - Cardinality({j \in 1..q : s[j] = "}"})

\* where a marker starts in s
MarkerStarts(s) ==
    {q \in 0..(Len(s) - Len(TIKZMARKNODE_OPEN)) : StartsAt(s, TIKZMARKNODE_OPEN, q)}

\* C1: after the Tagger has processed an annotation list, no marker lies
\* inside another marker.  The equations of SpecTag hold no braces, so a
\* marker that starts at brace depth above 0 starts inside the name or the
\* content of another marker.
C1_NoMarkerInsideMarker ==
    pc = "prober" =>
        \A q \in MarkerStarts(annotated_equation) :
            BraceDepth(annotated_equation, q) = 0

\* What the contract asks of the Tagger, on the original equation: in scan
\* order each target claims its first occurrence that overlaps no span
\* claimed before, and the first target with no such occurrence fails.
RECURSIVE ContractLoop(_, _, _, _, _)
ContractLoop(content, specs, order, k, claimed) ==
    IF k > Len(order) THEN [fails |-> FALSE, target |-> <<>>]
    ELSE LET target == specs[order[k]]
             free == {p \in 0..(Len(content) - Len(target)) :
                        /\ StartsAt(content, target, p)
                        /\ (p..(p + Len(target) - 1)) \cap claimed = {}}
         IN IF free = {} THEN [fails |-> TRUE, target |-> target]
            ELSE ContractLoop(content, specs, order, k + 1,
                     claimed \cup (Min(free)..(Min(free) + Len(target) - 1)))

ContractOutcome ==
    ContractLoop(block.content, block.annotations,
                 sorted_specs(block.annotations), 1, {})

\* C2: if a target occurs nowhere in the equation outside the markers
\* inserted before it, the Tagger raises an error naming that target and
\* the equation gets no tagged equation, no placement and no drawing.
C2_TargetNotFoundIsFatal ==
    (pc # "tagger" /\ ContractOutcome.fails) =>
        /\ pc = "raised"
        /\ raised = Error("ValueError", ContractOutcome.target)
        /\ annotated_equation = <<>>
        /\ above_placements = NoPlacements
        /\ below_placements = NoPlacements
        /\ tikz_code = <<>>

\* the name of the marker that starts at q: the text of its first brace group
NameAt(s, q) ==
    LET open == Min({j \in q..(Len(s) - 1) : s[j + 1] = "{"})
        close == Min({j \in open..(Len(s) - 1) : s[j + 1] = "}"})
    IN SubSeq(s, open + 2, close)

\* the markers of the document: <<slide, start>>
MarkerOccurrences ==
    UNION {{<<k, q>> : q \in MarkerStarts(latex_parts[k].equation)} :
              k \in 1..Len(latex_parts)}

\* C3: across the document generated by one BeamerGenerator, slides served
\* from the cache and repeated slides included, no two markers share a name.
C3_UniqueMarkerNames ==
    \A m1 \in MarkerOccurrences, m2 \in MarkerOccurrences :
        m1 # m2 =>
            NameAt(latex_parts[m1[1]].equation, m1[2])
                # NameAt(latex_parts[m2[1]].equation, m2[2])

\* the engine ran to exit status 0 and left a log
EngineSucceeded == run_result.returncode = 0 /\ run_result.log_exists

LineAbsent(tag, i) ==
    \A k \in 1..Len(run_result.log) :
        ~(run_result.log[k].tag = tag /\ run_result.log[k].index = i)

\* C4: when the node-position line of some annotation index is absent from
\* the log, the Search still runs to completion and returns an assignment
\* without raising.
C4_MissingNodeRecoverable ==
    (/\ EngineSucceeded
     /\ \E i \in 1..NumAnnotations : LineAbsent("NODEPOS", i)
     /\ pc # "search") =>
        raised = NoError

\* C5: for every annotation index whose label measurement line is absent
\* from the log, the Prober substitutes the default extent (50pt by 12pt)
\* and prints a warning instead of failing, so the extent map has an entry
\* for every index 1..n.
C5_DefaultExtent ==
    EngineSucceeded =>
        /\ raised.type \notin {"RuntimeError", "FileNotFoundError"}
        /\ DOMAIN bounding_boxes = 1..NumAnnotations
        /\ \A i \in 1..NumAnnotations :
            LineAbsent("ANNOTATION", i) =>
                /\ bounding_boxes[i] = <<100, 24>>
                /\ <<"Could not find measurement for annotation", i>> \in warnings

C5_Witness ==
    /\ pc = "search"
    /\ EngineSucceeded
    /\ NumAnnotations = 2
    /\ LineAbsent("ANNOTATION", 1)
    /\ ~LineAbsent("ANNOTATION", 2)

\* C6: if the engine exits with a non-zero status, the Prober raises and
\* the error leaves format_annotated_equation: the Search and the Emitter
\* do not run and the equation gets no placement, not even the fallback.
C6_TypesettingFailureIsFatal ==
    run_result.returncode \notin {0, -1} =>
        /\ pc = "raised"
        /\ raised.type = "RuntimeError"
        /\ above_placements = NoPlacements
        /\ below_placements = NoPlacements
        /\ tikz_code = <<>>

C6_Witness ==
    /\ run_result.returncode = 1
    /\ pc = "raised"
    /\ node_names # NoNames

AcceptedCheck == checked.done /\ checked.raised = NoError /\ checked.value

\* the Search returned a combination that check_placement_validity accepted
SearchValidated ==
    /\ pc = "emitter"
    /\ <<"Could not find valid placement within reasonable bounds", 0>>
            \notin warnings

\* the span of annotation i under an anchor, with the 10pt padding
SpanLeft(i, anchor) ==
    IF anchor = "base west" THEN node_positions[i]
    ELSE node_positions[i] - bounding_boxes[i][1] - 20

SpanRight(i, anchor) ==
    IF anchor = "base west" THEN node_positions[i] + bounding_boxes[i][1] + 20
    ELSE node_positions[i]

\* C8: in every accepted assignment an annotation with vertical shift < 0
\* is not above and one with vertical shift > 0 is not below.
C8_SideFeasibility ==
    /\ AcceptedCheck =>
        \A i \in 1..Len(checked.combination) :
            /\ node_shifts[i] < 0 => checked.combination[i].position # "above"
            /\ node_shifts[i] > 0 => checked.combination[i].position # "below"
    /\ SearchValidated =>
        /\ \A i \in DOMAIN above_placements : ~(node_shifts[i] < 0)
        /\ \A i \in DOMAIN below_placements : ~(node_shifts[i] > 0)

\* an accepted combination with a marker below the baseline, and a marker
\* on the baseline whose label is above
C8_Witness ==
    /\ AcceptedCheck
    /\ \E i, j \in 1..Len(checked.combination) :
        /\ node_shifts[i] < 0
        /\ node_shifts[j] = 0
        /\ checked.combination[j].position = "above"

\* C9: in every accepted assignment any two annotations on the same side
\* and level, adjacent after sorting or not, have spans that do not overlap.
C9_NoOverlapAllPairs ==
    AcceptedCheck =>
        \A i, j \in 1..Len(checked.combination) :
            (/\ i # j
             /\ checked.combination[i].position = checked.combination[j].position
             /\ checked.combination[i].level = checked.combination[j].level) =>
                \/ SpanRight(i, checked.combination[i].anchor)
                        <= SpanLeft(j, checked.combination[j].anchor)
                \/ SpanRight(j, checked.combination[j].anchor)
                        <= SpanLeft(i, checked.combination[i].anchor)

\* an accepted combination with three labels on one level
C9_Witness ==
    /\ AcceptedCheck
    /\ Len(checked.combination) = 3
    /\ \A i \in 1..3 :
        /\ checked.combination[i].position = checked.combination[1].position
        /\ checked.combination[i].level = checked.combination[1].level

\* the span lies in [left_margin, usable_width] of the layout mode, in
\* half points: [20pt, 455pt] or [5pt, 217.5pt]
WithinPage(i, anchor) ==
    IF block.has_columns
    THEN SpanLeft(i, anchor) >= 10 /\ SpanRight(i, anchor) <= 435
    ELSE SpanLeft(i, anchor) >= 40 /\ SpanRight(i, anchor) <= 910

\* C10: in every accepted assignment each annotation's span lies within
\* [left_margin, usable_width] of the active layout mode.
C10_WithinPage ==
    /\ AcceptedCheck =>
        \A i \in 1..Len(checked.combination) :
            WithinPage(i, checked.combination[i].anchor)
    /\ SearchValidated =>
        /\ \A i \in DOMAIN above_placements : WithinPage(i, above_placements[i][2])
        /\ \A i \in DOMAIN below_placements : WithinPage(i, below_placements[i][2])

\* an accepted two-column combination with a span that ends on the usable
\* width
C10_Witness ==
    /\ AcceptedCheck
    /\ block.has_columns
    /\ \E i \in 1..Len(checked.combination) :
        SpanRight(i, checked.combination[i].anchor) = 435

ValidAt(num_levels, k) ==
    check_placement_validity(
        generate_placement_combinations(
            NumAnnotations, LevelsAbove, LevelsBelow(num_levels))[k],
        bounding_boxes, node_positions, PageWidth(block.has_columns),
        HORIZONTAL_PADDING_PT * HP, node_shifts, block.has_columns).value

CombinationsOf(num_levels) ==
    1..NumCombinations(NumAnnotations, LevelsAbove, LevelsBelow(num_levels))

\* no combination of any round validates
NoneValid ==
    \A num_levels \in 1..MAX_ATTEMPTS :
        \A k \in CombinationsOf(num_levels) : ~ValidAt(num_levels, k)

\* C12: when no combination validates for any level count 1..5,
\* find_optimal_placement raises nothing and returns the fallback: the
\* above map empty, every annotation below at level 2+i, hence at pairwise
\* distinct levels increasing with the index, whatever the measurements.
C12_FallbackNeverRaises ==
    (pc \notin {"search", "checked"} /\ NoneValid) =>
        /\ pc = "emitter"
        /\ raised = NoError
        /\ above_placements = NoPlacements
        /\ DOMAIN below_placements = 1..NumAnnotations
        /\ \A i \in 1..NumAnnotations :
            below_placements[i] = <<2 + i, "base west">>
        /\ \A i, j \in 1..NumAnnotations :
            i < j => below_placements[i][1] < below_placements[j][1]

\* the fallback returned for two annotations, one of them with its marker
\* above the baseline
C12_Witness ==
    /\ pc = "emitter"
    /\ NumAnnotations = 2
    /\ NoneValid
    /\ \E i \in 1..2 : node_shifts[i] > 0
    /\ DOMAIN below_placements = 1..2
    /\ <<"Could not find valid placement within reasonable bounds", 0>>
            \in warnings

\* C13: in every result of the Search, validated or fallback, each tagged
\* annotation index is in exactly one of the two maps and the maps hold no
\* other index.
C13_ExactlyOneSide ==
    pc = "emitter" =>
        /\ DOMAIN above_placements \cap DOMAIN below_placements = {}
        /\ DOMAIN above_placements \cup DOMAIN below_placements
                = DOMAIN node_names
        /\ DOMAIN node_names = 1..NumAnnotations

\* a validated result with one label on each side
C13_Witness ==
    /\ SearchValidated
    /\ NumAnnotations = 2
    /\ DOMAIN above_placements # {}
    /\ DOMAIN below_placements # {}

\* t occurs in s
Occurs(s, t) == \E q \in 0..(Len(s) - Len(t)) : StartsAt(s, t, q)

\* the Tagger returned one marker per annotation and none inside another
TaggedCleanly ==
    /\ pc = "prober"
    /\ Cardinality(MarkerStarts(annotated_equation)) = NumAnnotations
    /\ \A q \in MarkerStarts(annotated_equation) :
            BraceDepth(annotated_equation, q) = 0

\* the place of annotation i in the scan: targets by descending length,
\* equal lengths as listed
ScanRank(i) ==
    1 + Cardinality({j \in 1..NumAnnotations :
            \/ Len(block.annotations[j]) > Len(block.annotations[i])
            \/ /\ Len(block.annotations[j]) = Len(block.annotations[i])
               /\ j < i})

\* the number in the name of annotation i's marker
NameNumber(i) ==
    CHOOSE k \in 0..(self_node_counter + NumAnnotations) :
        node_names[i] = NodeName(k)

\* C14 as stated: marker names are assigned in original index order, so
\* for annotations i < j the name of i precedes the name of j.
C14_NamesInIndexOrder ==
    TaggedCleanly =>
        \A i, j \in 1..NumAnnotations :
            i < j => NameNumber(i) < NameNumber(j)

\* C14 as the code has it: the map of names is keyed by the original index
\* - entry i is the name of the marker that wraps the target of annotation
\* i - while the names are numbered in scan order.
C14_NamesKeyedByIndex ==
    TaggedCleanly =>
        \A i \in 1..NumAnnotations :
            /\ node_names[i] = NodeName(self_node_counter + ScanRank(i))
            /\ Occurs(annotated_equation,
                      Wrapped(node_names[i], block.annotations[i]))

\* two disjoint targets, the second the longer, so that it is scanned first
C14_Witness ==
    /\ TaggedCleanly
    /\ NumAnnotations = 2
    /\ Len(block.annotations[1]) < Len(block.annotations[2])
    /\ ~Occurs(block.annotations[2], block.annotations[1])

\* the Tagger has returned for the equation of the state
Tagged == pc \in {"prober", "engine", "search", "emitter"}

\* C15: for n annotations whose targets are all found the Tagger returns
\* one name per index 1..n, the names pairwise distinct and numbered above
\* the incoming counter c, and the counter c+n; format_annotated_equation
\* hands c+n back to the generator, and a slide without annotations leaves
\* the generator's counter as it was.
C15_OneFreshNamePerAnnotation ==
    /\ [](Tagged =>
            /\ DOMAIN node_names = 1..NumAnnotations
            /\ {node_names[i] : i \in 1..NumAnnotations}
                = {NodeName(self_node_counter + k) : k \in 1..NumAnnotations}
            /\ Cardinality({node_names[i] : i \in 1..NumAnnotations})
                = NumAnnotations
            /\ node_counter = self_node_counter + NumAnnotations)
    /\ [][/\ (pc = "emitter" /\ pc' = "idle") =>
                self_node_counter' = self_node_counter + NumAnnotations
          /\ (pc = "idle" /\ pc' = "idle" /\ latex_parts' # <<>>) =>
                self_node_counter' = self_node_counter]_vars

\* the second annotated equation of a document has been tagged: the
\* incoming counter is above 0
C15_Witness ==
    /\ Tagged
    /\ self_node_counter > 0
    /\ NumAnnotations = 2
    /\ node_counter = self_node_counter + 2

\* a step of generate_beamer that adds a slide to the document
EmitsSlide == Len(latex_parts') = Len(latex_parts) + 1

\* the slide added was served from the dict in memory, which this
\* generator had already loaded
ServedFromMemory ==
    /\ slide_cache.loaded
    /\ slide_cache' = slide_cache
    /\ cache_file' = cache_file
    /\ \E h \in DOMAIN slide_cache.entries :
            slide_cache.entries[h] = latex_parts'[Len(latex_parts')]

\* the slide added was generated and appended to the cache file
GeneratedAndSaved ==
    /\ Len(cache_file') = Len(cache_file) + 1
    /\ SubSeq(cache_file', 1, Len(cache_file)) = cache_file
    /\ cache_file'[Len(cache_file')].latex_source
            = latex_parts'[Len(latex_parts')]
    /\ (slide_cache.loaded =>
            cache_file'[Len(cache_file')].hash \notin DOMAIN slide_cache.entries)

OptionRank(option, num_levels) ==
    LET a == IF option.anchor = "base west" THEN 1
             ELSE IF option.anchor = "base east" THEN 2 ELSE 0
    IN IF a = 0 THEN 0
       ELSE IF option.position = "below"
       THEN IF \E m \in 1..num_levels : option.level = 15 * m
            THEN 2 * ((option.level \div 15) - 1) + a
            ELSE 0
       ELSE IF option.position = "above" /\ option.level = 20
       THEN 2 * num_levels + a
       ELSE 0

\* the place of a combination in the Cartesian product, the last
\* annotation varying fastest
RECURSIVE ProductIndexFrom(_, _, _)
ProductIndexFrom(combination, num_levels, i) ==
    IF i > Len(combination) THEN 0
    ELSE (OptionRank(combination[i], num_levels) - 1)
            * Pow(2 * num_levels + 2, Len(combination) - i)
         + ProductIndexFrom(combination, num_levels, i + 1)

ProductIndex(combination, num_levels) ==
    1 + ProductIndexFrom(combination, num_levels, 1)

\* the combination the Search returned, read off the two maps
Returned ==
    [i \in 1..NumAnnotations |->
        IF i \in DOMAIN above_placements
        THEN [position |-> "above", level |-> above_placements[i][1],
              anchor |-> above_placements[i][2]]
        ELSE [position |-> "below", level |-> below_placements[i][1],
              anchor |-> below_placements[i][2]]]

\* the first round that holds a valid combination
FirstValidRound ==
    Min({num_levels \in 1..MAX_ATTEMPTS :
            \E k \in CombinationsOf(num_levels) : ValidAt(num_levels, k)})

\* C17: the combinations of a round are generated in the stated order, and
\* the Search returns the first combination of that order that validates.
C17_FirstValidInGenerationOrder ==
    /\ pc = "search" =>
        \A num_levels \in 1..CheckLevels :
            \A k \in CombinationsOf(num_levels) :
                LET combination ==
                        generate_placement_combinations(
                            NumAnnotations, LevelsAbove,
                            LevelsBelow(num_levels))[k]
                IN /\ Len(combination) = NumAnnotations
                   /\ \A i \in 1..NumAnnotations :
                        OptionRank(combination[i], num_levels) > 0
                   /\ ProductIndex(combination, num_levels) = k
    /\ SearchValidated =>
        LET round == FirstValidRound
            k == ProductIndex(Returned, round)
        IN /\ k \in CombinationsOf(round)
           /\ ValidAt(round, k)
           /\ \A earlier \in 1..(k - 1) : ~ValidAt(round, earlier)

\* the Search returned a combination though a later one of the same round
\* validates too
C17_Witness ==
    /\ SearchValidated
    /\ NumAnnotations = 2
    /\ ProductIndex(Returned, FirstValidRound) > 1
    /\ \E later \in CombinationsOf(FirstValidRound) :
        /\ later > ProductIndex(Returned, FirstValidRound)
        /\ ValidAt(FirstValidRound, later)

\* the number of below-levels the returned combination needs
RoundUsed ==
    Max({1} \cup {below_placements[i][1] \div 15 : i \in DOMAIN below_placements})

\* C18: round L offers the below levels 15pt, 30pt, ..., 15L pt and the one
\* above level 20pt, for L = 1..5; the Search returns in the first round
\* that holds a valid combination, so a validated result that uses L
\* below-levels means no combination was valid with fewer, and the
\* fallback is returned only when none of the 5 rounds holds one.
C18_RoundsWiden ==
    /\ \A num_levels \in 1..5 :
            LevelsBelow(num_levels) = [i \in 1..num_levels |-> 15 * i]
    /\ LevelsAbove = <<20>>
    /\ SearchValidated =>
        /\ \A i \in DOMAIN above_placements : above_placements[i][1] = 20
        /\ \A i \in DOMAIN below_placements :
                below_placements[i][1] \in {15 * m : m \in 1..5}
        /\ RoundUsed = FirstValidRound
        /\ \A num_levels \in 1..(RoundUsed - 1) :
                \A k \in CombinationsOf(num_levels) : ~ValidAt(num_levels, k)
    /\ (pc = "emitter" /\ ~SearchValidated) => NoneValid

\* a validated result that needed a second below-level
C18_Witness ==
    /\ SearchValidated
    /\ RoundUsed = 2
    /\ \A k \in CombinationsOf(1) : ~ValidAt(1, k)

\* the spans of annotations i and j overlap under the given anchors
SpansOverlap(i, anchor_i, j, anchor_j) ==
    /\ SpanRight(i, anchor_i) > SpanLeft(j, anchor_j)
    /\ SpanRight(j, anchor_j) > SpanLeft(i, anchor_i)

\* two annotations that no choice of anchors fits on one level: the spans
\* overlap or one of them leaves the page
SameLevelImpossible ==
    /\ NumAnnotations = 2
    /\ \A anchor_1, anchor_2 \in {"base west", "base east"} :
        \/ SpansOverlap(1, anchor_1, 2, anchor_2)
        \/ ~WithinPage(1, anchor_1)
        \/ ~WithinPage(2, anchor_2)

\* C19: two annotations whose spans necessarily overlap on one level are
\* never returned on the same side and level: the assignment the Search
\* returns, validated or fallback, has them on different levels or on
\* different sides.
C19_OverlapForcesSeparation ==
    (pc = "emitter" /\ SameLevelImpossible) =>
        \/ Returned[1].position # Returned[2].position
        \/ Returned[1].level # Returned[2].level

\* two 200pt labels that overlap on any one level, both markers below the
\* baseline: the Search went to a second below-level and returned them on
\* different levels of the same side
C19_Witness ==
    /\ SearchValidated
    /\ SameLevelImpossible
    /\ bounding_boxes[1][1] = 400
    /\ bounding_boxes[2][1] = 400
    /\ Returned[1].position = "below"
    /\ Returned[2].position = "below"
    /\ Returned[1].level # Returned[2].level

\* the leader lines of the emitted drawing that start at the given marker
LeadersOf(node) ==
    {k \in 1..Len(tikz_code) :
        tikz_code[k].kind = "leader" /\ tikz_code[k].node = node}

\* C20: for a+b=c with the annotations a and b, single column, both
\* markers at a non-negative shift: both targets are tagged, under distinct
\* names; both labels are below at 15pt with spans that do not overlap;
\* one leader line is emitted for each.
C20_EndToEnd ==
    /\ pc # "tagger" =>
        /\ annotated_equation =
                Wrapped(NodeName(1), <<"a">>) \o <<"+">>
                    \o Wrapped(NodeName(2), <<"b">>) \o <<"=", "c">>
        /\ node_names = <<NodeName(1), NodeName(2)>>
    /\ (EngineSucceeded /\ \A i \in 1..2 : node_shifts[i] >= 0) =>
        pc \in {"search", "emitter", "idle"}
    /\ (EngineSucceeded /\ pc = "idle") =>
        /\ above_placements = NoPlacements
        /\ DOMAIN below_placements = 1..2
        /\ \A i \in 1..2 : below_placements[i][1] = 15
        /\ ~SpansOverlap(1, below_placements[1][2], 2, below_placements[2][2])
        /\ \A i \in 1..2 : Cardinality(LeadersOf(node_names[i])) = 1

\* the stage that may follow each stage of format_annotated_equation
StageOrder ==
    /\ pc = "idle" => pc' \in {"idle", "tagger"}
    /\ pc = "tagger" => pc' \in {"prober", "raised"}
    /\ pc = "prober" => pc' = "engine"
    /\ pc = "engine" => pc' \in {"search", "raised"}
    /\ pc = "search" => pc' \in {"emitter", "raised"}
    /\ pc = "emitter" => pc' = "idle"
    /\ pc = "raised" => pc' = "idle"

\* C21: for an annotated equation the stages follow one another as Tagger,
\* Prober, Search, Emitter, none entered twice; the engine is started once,
\* between the Tagger and the Search, and never for a block without
\* annotations.
C21_StagesInOrder ==
    /\ [][StageOrder]_vars
    /\ [][pc' = "tagger" => (pc = "idle" /\ block'.annotations # <<>>)]_vars
    /\ [][run_result' # run_result =>
            \/ pc = "engine" /\ run_result = NoRun /\ block' = block
            \/ run_result' = NoRun]_vars
    /\ [](pc \in {"tagger", "prober", "engine"} => run_result = NoRun)
    /\ [](pc \in {"search", "emitter"} => run_result # NoRun)
    /\ [][(pc = "idle" /\ pc' = "idle") =>
            (run_result' = run_result \/ latex_parts' = <<>>)]_vars

\* an annotated equation went through all four stages and was emitted
C21_Witness ==
    /\ pc = "idle"
    /\ block.annotations # <<>>
    /\ run_result.returncode = 0
    /\ tikz_code # <<>>
    /\ Len(latex_parts) = 1
    /\ latex_parts[1].tikz_code = tikz_code

\* the warning of the fallback was printed
FallbackWarned ==
    <<"Could not find valid placement within reasonable bounds", 0>> \in warnings

\* the maps of the state are those of combination k of a round
MapsOf(num_levels, k) ==
    LET combination ==
            generate_placement_combinations(
                NumAnnotations, LevelsAbove, LevelsBelow(num_levels))[k]
    IN /\ above_placements = PlacementsOf(combination, node_names, "above")
       /\ below_placements = PlacementsOf(combination, node_names, "below")

\* C22: the warning is printed exactly when the fallback is returned, and
\* the maps of the fallback are the maps of no combination of any round,
\* so of no validated return for the same annotations.
C22_FallbackDistinguishable ==
    pc = "emitter" =>
        /\ FallbackWarned <=> NoneValid
        /\ FallbackWarned =>
            \A num_levels \in 1..MAX_ATTEMPTS :
                \A k \in CombinationsOf(num_levels) : ~MapsOf(num_levels, k)
        /\ ~FallbackWarned =>
            \E k \in CombinationsOf(MAX_ATTEMPTS) : MapsOf(MAX_ATTEMPTS, k)

\* the fallback returned for a single label that fits nowhere
C22_Witness ==
    /\ pc = "emitter"
    /\ FallbackWarned
    /\ NumAnnotations = 1
    /\ below_placements = <<<<3, "base west">>>>

\* what the check is to ensure, written out on the combination and the
\* measurements of the state: side feasibility, no overlap on a level, the
\* page bounds, the clearance of the leader lines
ValidAsStated(combination) ==
    /\ \A i \in 1..Len(combination) :
        /\ node_shifts[i] < 0 => combination[i].position # "above"
        /\ node_shifts[i] > 0 => combination[i].position # "below"
        /\ WithinPage(i, combination[i].anchor)
    /\ \A i, j \in 1..Len(combination) :
        (i # j /\ combination[i].position = combination[j].position) =>
            /\ combination[i].level = combination[j].level =>
                ~SpansOverlap(i, combination[i].anchor, j, combination[j].anchor)
            /\ combination[i].level < combination[j].level =>
                ~(/\ SpanLeft(i, combination[i].anchor) < node_positions[j] + 10
                  /\ SpanRight(i, combination[i].anchor) > node_positions[j] - 10)

PartsOf(kind, i) ==
    {k \in 1..Len(tikz_code) : tikz_code[k].kind = kind /\ tikz_code[k].pos = i}

\* the Emitter has returned for the equation of the state
Emitted == pc = "idle" /\ Len(latex_parts) = 1

\* the side and the placement the Emitter is to use for annotation i
SideOf(i) == IF i \in DOMAIN above_placements THEN "above" ELSE "below"

PlacementOf(i) ==
    IF i \in DOMAIN above_placements THEN above_placements[i]
    ELSE below_placements[i]

NoEarlierValid(num_levels, k) ==
    /\ \A j \in 1..(k - 1) : ~ValidAt(num_levels, j)
    /\ \A l \in 1..(num_levels - 1) :
          \A j \in 1..Pow(2 * l + 2, NumAnnotations) : ~ValidAt(l, j)

\* one of the three steps of the search can be taken
SearchCanStep ==
    \/ checked.done /\ checked.raised = NoError /\ checked.value
    \/ ~(checked.done /\ checked.value) /\ RoundNow = MAX_ATTEMPTS /\ RoundOver
    \/ SearchCanCheck

\* find_optimal_placement has returned from the loops
SearchReturned == pc = "emitter" /\ checked.done

\* C25: find_optimal_placement terminates: it runs at most 5 rounds,
\* round L makes at most (2L+2)^n calls of the check and moves on to the
\* next round after exactly that many, and it then returns the first valid
\* combination or the fallback.
C25_SearchTerminates ==
    /\ [](checked.done =>
            /\ checked.num_levels \in 1..MAX_ATTEMPTS
            /\ checked.k \in 1..Pow(2 * checked.num_levels + 2, NumAnnotations))
    /\ [][checked.done /\ checked'.num_levels # checked.num_levels =>
            /\ checked'.num_levels = checked.num_levels + 1
            /\ checked.k = Pow(2 * checked.num_levels + 2, NumAnnotations)
            /\ checked'.k = 1]_vars
    /\ [](SearchReturned =>
            IF checked.value
            THEN /\ NoEarlierValid(checked.num_levels, checked.k)
                 /\ above_placements =
                        PlacementsOf(checked.combination, node_names, "above")
                 /\ below_placements =
                        PlacementsOf(checked.combination, node_names, "below")
            ELSE /\ NoEarlierValid(MAX_ATTEMPTS,
                                   Pow(2 * MAX_ATTEMPTS + 2, NumAnnotations) + 1)
                 /\ above_placements = NoPlacements
                 /\ below_placements = FallbackBelow(NumAnnotations, node_names))
    /\ [](pc = "search" => SearchCanStep)
    /\ <>(pc # "search")

\* the longest run: two annotations, all 360 combinations checked, fallback
C25_Witness ==
    /\ SearchReturned
    /\ NumAnnotations = 2
    /\ ~checked.value
    /\ checked.num_levels = MAX_ATTEMPTS
    /\ checked.k = 144
    /\ below_placements = FallbackBelow(2, node_names)

\* the levels of the annotations drawn below the equation
BelowLevels ==
    {below_placements[i][1] :
        i \in (DOMAIN below_placements \ DOMAIN above_placements)
                  \cap 1..NumAnnotations}

\* the reservation in points: the deepest below level and the buffer, less
\* two em, not below zero
ReservedPt ==
    IF BelowLevels = {} THEN 0
    ELSE LET reduced == Max(BelowLevels) + BELOW_BUFFER_PT
                            - VSPACE_REDUCTION_EM * PT_PER_EM
         IN IF reduced > 0 THEN reduced ELSE 0

\* C26: the space reserved below is the deepest assigned below level plus
\* 10pt, at 12pt per em, less 2em, clamped at zero: the \vspace written is
\* that value to one decimal and never negative, and none is written when
\* the value is zero, as for the fallback levels of up to 12 annotations.
C26_BelowSpaceClamped ==
    Emitted =>
        LET vspace == latex_parts[1].vspace IN
        /\ ReservedPt = 0 <=> vspace = -1
        /\ ReservedPt > 0 =>
              /\ vspace >= 1
              /\ 12 * vspace - 10 * ReservedPt \in (0 - 6)..6
        /\ (\A level \in BelowLevels : level <= FALLBACK_BASE + 12)
              => vspace = -1

\* the fallback level of a twelfth annotation is the deepest: 14pt + 10pt
\* is 2em, the blank line is written and no \vspace
C26_Witness ==
    /\ Emitted
    /\ BelowLevels = {FALLBACK_BASE + 1, FALLBACK_BASE + 12}
    /\ latex_parts[1].blank
    /\ latex_parts[1].vspace = -1

\* C27: a validated result returned in round L > 1 has an annotation on
\* the deepest below-level of that round, 15 * L pt: a combination without
\* it was already checked, and rejected, in round L - 1.
C27_DeepestLevelUsed ==
    (SearchReturned /\ checked.value /\ checked.num_levels > 1) =>
        /\ \E i \in DOMAIN below_placements :
              below_placements[i][1] = LEVEL_STEP_PT * checked.num_levels
        /\ \A i \in DOMAIN below_placements :
              below_placements[i][1] <= LEVEL_STEP_PT * checked.num_levels

\* returned from the second round: one label on 30pt, the other on 15pt
C27_Witness ==
    /\ SearchReturned
    /\ checked.value
    /\ checked.num_levels = 2
    /\ DOMAIN below_placements = {1, 2}
    /\ {below_placements[1][1], below_placements[2][1]} =
           {BASE_LEVEL_PT, BASE_LEVEL_PT + LEVEL_STEP_PT}

\* the dict _generate_slide looks a hash up in
CacheNow == load_cache(slide_cache, no_cache, cache_file)

\* _generate_slide returned at once, writing nothing: a cache hit
HitStep == pc = "idle" /\ EmitsSlide /\ cache_file' = cache_file

\* format_annotated_equation is running
Formatting == pc \in {"tagger", "prober", "engine", "search", "emitter"}

C29_FailureWritesNothing ==
    /\ [][((pc = "idle" \/ Formatting) /\ (Formatting' \/ pc' = "raised")) =>
            /\ self_node_counter' = self_node_counter
            /\ cache_file' = cache_file
            /\ CacheNow'.entries = CacheNow.entries]_vars
    /\ [](pc = "raised" =>
            /\ hash_blocks(block) \notin DOMAIN CacheNow.entries
            /\ self_node_counter <= node_counter)

\* the second slide's equation was tagged, the local counter going from 1
\* to 3, and the engine then failed: the generator's counter is still 1 and
\* the cache holds the first slide only
C29_Witness ==
    /\ pc = "raised"
    /\ raised.type = "RuntimeError"
    /\ self_node_counter = 1
    /\ node_counter = 3
    /\ Len(latex_parts) = 1
    /\ Len(cache_file) = 1
    /\ DOMAIN slide_cache.entries = {cache_file[1].hash}

\* the lines that open and the line that closes an environment
BeginsOf(env) ==
    IF env = "columns" THEN {"\\begin{columns}[t]"}
    ELSE {"\\begin{column}[t]{0.484\\textwidth}",
          "\\begin{column}[t]{\\textwidth}"}

EndOf(env) == IF env = "columns" THEN "\\end{columns}" ELSE "\\end{column}"

\* how often env is opened and closed in the first k slide parts
Opened(env, k) == Cardinality({j \in 1..k : slide_parts[j] \in BeginsOf(env)})

Closed(env, k) == Cardinality({j \in 1..k : slide_parts[j] = EndOf(env)})

\* C30: in every slide body _process_slide_blocks produces, the columns
\* and the column environments are balanced and none is closed before it
\* is opened, for any arrangement of column breaks and section breaks, a
\* leading section break, consecutive section breaks and empty sections
\* included.
C30_ColumnsBalanced ==
    (pc = "idle" /\ blocks # <<>>) =>
        \A env \in {"columns", "column"} :
            /\ \A k \in 1..Len(slide_parts) : Closed(env, k) <= Opened(env, k)
            /\ Closed(env, Len(slide_parts)) = Opened(env, Len(slide_parts))

====
